---- MODULE Spec2Model ----
(***************************************************************************)
(* State-machine model of dll-syringe: the injector core (src/syringe.rs), *)
(* the remote procedure layer (src/remote_procedure.rs) and the remote box *)
(* layer (src/process_memory/remote_box.rs).                               *)
(*                                                                         *)
(* Three specifications share the variables of this module:                *)
(*   SpecInject  Syringe::inject / Syringe::eject against one target       *)
(*   SpecBox     RemoteBoxAllocator / RemoteBox                            *)
(*   SpecProc    get_procedure_address and RemoteProcedure::call           *)
(* Each leaves the variables of the other layers unchanged.                *)
(***************************************************************************)
EXTENDS Integers, Sequences, FiniteSets, TLC

\* ------------------------------------------------------------------------
\* Bounds of the model
\* ------------------------------------------------------------------------

\* operations (inject + eject) started in one behaviour
MaxOps == 3

\* loads / unloads the target performs on its own, racing with the host
MaxRace == 2

\* remote boxes allocated in one behaviour of SpecBox
MaxAllocs == 3

\* operations started in one behaviour of SpecProc
MaxProcOps == 3

\* calls the host threads make on one Syringe
MaxHostCalls == 3

\* ------------------------------------------------------------------------
\* Program constants
\* ------------------------------------------------------------------------

STILL_ACTIVE == 259

\* exit code of the threads of a process ended by Process::kill
KillExitCode == 1

\* GetLastError of the remote LoadLibraryW for a file that does not exist
ERROR_MOD_NOT_FOUND == 126

\* size of the region a raw allocator reserves by default: one OS page
DefaultPage == 4096

\* distance between the regions VirtualAllocEx hands out (allocation granularity)
RegionStride == 65536
AddrSpan == 16777216

\* Win32 error codes the modelled OS calls fail with
ERROR_ACCESS_DENIED == 5
ERROR_INVALID_HANDLE == 6
ERROR_NOT_ENOUGH_MEMORY == 8

\* ------------------------------------------------------------------------
\* Values
\* ------------------------------------------------------------------------

ValidPath == "payload.dll"
InvalidPath == "invalid path"
NulPath == "nul\\0path"
Paths == {ValidPath, InvalidPath, NulPath}

\* Option<T>, OnceCell<T> and MaybeUninit<T>: the empty sequence, or <<value>>
None == <<>>
Some(x) == <<x>>
Unwrap(o) == o[1]

\* A pointer-sized value of the target (a ModuleHandle, an address) is the pair
\* of its high and low 32 bits: ptr = hi * 2^32 + lo.
Ptr(hi, lo) == [hi |-> hi, lo |-> lo]
NullPtr == Ptr(0, 0)

\* module bases the loader of the target may pick (64 KiB aligned); a 32-bit
\* target has no address above 2^32
Bases(target64) ==
    IF target64 THEN {Ptr(0, 65536), Ptr(1, 0), Ptr(1, 65536)}
    ELSE {Ptr(0, 65536), Ptr(0, 131072)}

NoThread == [state |-> "none", code |-> 0]
NoOutcome ==
    [op |-> "none", status |-> "none", err |-> "none", oscode |-> 0, module |-> NullPtr]
NotLoaded == [base |-> NullPtr, rc |-> 0]
NoBoxOutcome == [op |-> "none", status |-> "none", box |-> 0, value |-> <<>>, error |-> "none"]
\* no remote thread of the remote-procedure layer exists
NoRemoteThread ==
    [state |-> "none", entry |-> [hi |-> 0, lo |-> 0], param |-> [hi |-> 0, lo |-> 0],
     crashed |-> FALSE, returned |-> <<>>, stored |-> <<>>]

\* the host is in neither get_procedure nor call
Idle == [op |-> "idle", name |-> 0, proc |-> 0, arg |-> 0, export |-> <<>>]

\* nothing has returned yet on the remote-procedure layer
NoProcOutcome ==
    [op |-> "none", status |-> "none", kind |-> "none", value |-> <<>>,
     proc |-> 0, arg |-> 0, returned |-> <<>>, stored |-> <<>>]

\* host threads that may hold the Syringe
Threads == {1, 2}

\* no host thread is inside the Syringe
NoHosts ==
    [sync |-> FALSE,
     pc |-> [t \in Threads |-> "idle"],
     cell |-> [t \in Threads |-> "x86"],
     used |-> [t \in Threads |-> <<>>],
     loads |-> [c \in {"x86", "x64"} |-> 0],
     calls |-> 0]

\* no emitter has been given inputs yet
NoAsm ==
    [status |-> "none", family |-> "none", procedure |-> [hi |-> 0, lo |-> 0],
     return_buffer |-> [hi |-> 0, lo |-> 0], baseA |-> 0, baseB |-> 0,
     code |-> <<>>, codeA |-> <<>>, codeB |-> <<>>]

EmptyHeap ==
    [ralloc |-> <<>>, mem |-> [a \in {} |-> 0], boxes |-> <<>>, dirty |-> {},
     flag |-> 0, conflict |-> FALSE]

\* sizes a client asks alloc_raw for: small cells, a whole page, more than a page
Sizes == {1, DefaultPage, DefaultPage + 1}

\* byte images of the values a client copies into a box
Values(n) == {[i \in 1..n |-> v] : v \in {1, 2}}
CopyValues == Values(2)

\* the host/target combinations one build of the crate can meet
Configs ==
    { c \in [os64 : BOOLEAN, host64 : BOOLEAN, target64 : BOOLEAN, feat : BOOLEAN] :
        /\ c.host64 => c.os64
        /\ c.target64 => c.os64 }

VARIABLES
    cfg,        \* OS / host / target bitness and the into_x86_from_x64 feature
    alive,      \* the target process has not been killed
    loaded,     \* the payload module in the target: [base, rc] (rc = 0: not loaded)
    x86_data,   \* Syringe.x86_data : OnceCell<InjectHelpData>
    x64_data,   \* Syringe.x64_data : OnceCell<InjectHelpData>
    pc,         \* position of the host inside inject / eject
    deadAtCall, \* the target had been killed when the current operation was called
    path,       \* inject: payload_path
    ejHandle,   \* eject: module.payload().handle()
    fstring,    \* inject: the ForeignProcessWideString is allocated
    thread,     \* the remote thread: [state, code]
    created,    \* CreateRemoteThread returned a non-null handle in the current operation
    hOpen,      \* the thread handle returned by CreateRemoteThread is open
    closes,     \* CloseHandle calls on the thread handle of the current operation
    exit_code,  \* the local exit_code (None before GetExitCodeThread stores it)
    held,       \* InjectedModule values the host holds (handles, in order of injection)
    outcome,    \* what the last finished operation returned
    nOps,       \* operations started
    nRace,      \* loads / unloads done by the target itself
    steps,      \* what the running (or last) inject / eject has done of its thread sequence
    \* --- remote memory: RemoteBoxAllocator and the boxes it issued
    heap,       \* [ralloc, mem, boxes, dirty]:
                \*   ralloc  DynamicMultiBufferAllocator: the sequence of raw allocators
                \*   mem     bytes of the target written so far: address -> byte
                \*   boxes   every RemoteBox issued so far: [base, len, live, frees, last]
                \*   dirty   addresses the host wrote and has not flushed from the
                \*           instruction cache since
    boxOutcome, \* what the last box operation returned
    \* --- remote procedures
    inject_help_data,       \* Syringe.inject_help_data : OnceCell<InjectHelpData>
    get_proc_address_stub,  \* Syringe.get_proc_address_stub : OnceCell<RemoteProcedureStub>
    procedures, \* every RemoteProcedure handed out: [ptr, stub, live, args]
                \*   args: the arguments of the calls that returned Ok, in order
    rthread,    \* the remote thread run_remote_thread started: [state, entry, param, ...]
    frame,      \* the host inside get_procedure / call: [op, ...locals]
    procOutcome, \* what the last finished get_procedure / call returned
    nProcOps,   \* operations started on the remote-procedure layer
    callSteps,  \* what the running (or last) stub call has done: [step, failed]
    \* --- the emitters on their own
    asm,        \* one use of an emitter: its inputs, then what it produced
    \* --- host threads sharing one Syringe
    once        \* the host threads inside get_inject_help_data_for_process

injVars == <<cfg, alive, loaded, x86_data, x64_data, pc, deadAtCall, path, ejHandle,
             fstring, thread, created, hOpen, closes, exit_code, held, outcome, nOps, nRace, steps>>

\* the variables only inject / eject use
injOnly == <<loaded, x86_data, x64_data, pc, deadAtCall, path, ejHandle,
             fstring, thread, created, hOpen, closes, exit_code, held, outcome, nOps, nRace, steps>>

boxVars == <<heap, boxOutcome>>

procVars == <<inject_help_data, get_proc_address_stub, procedures, rthread, frame,
              procOutcome, nProcOps, callSteps>>

asmVars == <<asm>>

onceVars == <<once>>

\* the variables of inject / eject other than the two cells
injNoCells == <<cfg, alive, loaded, pc, deadAtCall, path, ejHandle, fstring, thread, created,
                hOpen, closes, exit_code, held, outcome, nOps, nRace, steps>>

vars == <<injVars, boxVars, procVars, asmVars, onceVars>>

\* ------------------------------------------------------------------------
\* Errors
\* ------------------------------------------------------------------------

\* From<Win32Error> for the crate's error: a call refused because the target
\* has terminated is ProcessInaccessible, every other OS failure is RemoteIo
ErrorKind(code) ==
    IF code = ERROR_ACCESS_DENIED THEN "ProcessInaccessible" ELSE "RemoteIo"

Win32Err(op, code) ==
    [op |-> op, status |-> "Err", err |-> ErrorKind(code), oscode |-> code, module |-> NullPtr]

PlainErr(op, kind) ==
    [op |-> op, status |-> "Err", err |-> kind, oscode |-> 0, module |-> NullPtr]

Panicked(op) ==
    [op |-> op, status |-> "Panic", err |-> "none", oscode |-> 0, module |-> NullPtr]

Succeeded(op, h) ==
    [op |-> op, status |-> "Ok", err |-> "none", oscode |-> 0, module |-> h]

\* the failure of an OS call against the target: a terminated target refuses
\* every call, a live one may run out of resources
TargetCallFailure == IF alive THEN ERROR_NOT_ENOUGH_MEMORY ELSE ERROR_ACCESS_DENIED

\* ------------------------------------------------------------------------
\* The target
\* ------------------------------------------------------------------------

\* Process::is_wow64
IsWow64 == cfg.os64 /\ ~cfg.target64

\* `handle as u32`: the low 32 bits
Trunc32(h) == h.lo

\* `exit_code as usize`: the DWORD zero-extended to a pointer-sized value
ZeroExtend(dword) == Ptr(0, dword)

\* Process::get_module_handles (the payload's entry of the list)
ModuleHandles == IF loaded.rc > 0 THEN {loaded.base} ELSE {}

\* Process::find_module_by_path(module_path): the handle of Some(module), or
\* None
FindModuleByPath(p) ==
    IF p = ValidPath /\ loaded.rc > 0 THEN Some(loaded.base) ELSE None

\* kernel32!LoadLibraryW(p) run inside the target: the new module table and
\* the HMODULE returned, for a loader that places a fresh module at base b
LoadLibraryW(p, b) ==
    IF p # ValidPath THEN [mods |-> loaded, ret |-> NullPtr]
    ELSE IF loaded.rc > 0
         THEN [mods |-> [loaded EXCEPT !.rc = @ + 1], ret |-> loaded.base]
         ELSE [mods |-> [base |-> b, rc |-> 1], ret |-> b]

\* kernel32!FreeLibrary(h) run inside the target: the new module table and the BOOL
FreeLibrary(h) ==
    IF loaded.rc > 0 /\ loaded.base = h
    THEN [mods |-> IF loaded.rc = 1 THEN NotLoaded ELSE [loaded EXCEPT !.rc = @ - 1],
          ret |-> 1]
    ELSE [mods |-> loaded, ret |-> 0]

\* ------------------------------------------------------------------------
\* InjectHelpData
\* ------------------------------------------------------------------------

InjectHelpData(target64) ==
    [kernel32_module |-> IF target64 THEN Ptr(8, 0) ELSE Ptr(0, 65536 * 3),
     load_library_offset |-> 4096,
     free_library_offset |-> 8192]

get_load_library_fn_ptr(d) ==
    Ptr(d.kernel32_module.hi, d.kernel32_module.lo + d.load_library_offset)
get_free_library_fn_ptr(d) ==
    Ptr(d.kernel32_module.hi, d.kernel32_module.lo + d.free_library_offset)

\* ------------------------------------------------------------------------
\* Syringe::get_inject_help_data_for_process
\* ------------------------------------------------------------------------

\* Process::is_wow64: Some(flag), or None when the query fails because the
\* target has terminated
IsWow64Result == IF alive THEN Some(IsWow64) ELSE None

\* `!process.is_wow64().unwrap_or(false)`: the failure of the query swallowed
IsTargetX64Swallowed ==
    Some(~(IF IsWow64Result = None THEN FALSE ELSE Unwrap(IsWow64Result)))

\* `let is_target_x64 = !process.is_wow64()?;`: None stands for the early
\* return of the error
IsTargetX64 ==
    IF IsWow64Result = None THEN None ELSE Some(~Unwrap(IsWow64Result))

\* which OnceCell the build and the target select: "x64", "x86", or
\* "unsupported" for Err(InjectError::UnsupportedTarget)
HelpDataCell(is_target_x64) ==
    IF cfg.host64
    THEN IF is_target_x64 THEN "x64"
         ELSE IF cfg.feat THEN "x86" ELSE "unsupported"
    ELSE IF is_target_x64 THEN "unsupported" ELSE "x86"

CellValue(c) == IF c = "x64" THEN x64_data ELSE x86_data

\* the loader get_or_try_init runs for cell c reads the target's module list
\* (load_inject_help_data_for_process) rather than the host's own kernel32
\* (load_inject_help_data_for_current_target)
LoaderReadsTarget(c) == cfg.host64 /\ c = "x86"

\* OnceCell::get_or_try_init with a loader that succeeded: the first value stays
SetCell(c, d) ==
    /\ x64_data' = IF c = "x64" /\ x64_data = None THEN Some(d) ELSE x64_data
    /\ x86_data' = IF c = "x86" /\ x86_data = None THEN Some(d) ELSE x86_data

\* the outcome of get_inject_help_data_for_process for operation op:
\* continue at `next`, or return the error
GetInjectHelpData(op, next) ==
    \/ /\ IsTargetX64 = None                       \* process.is_wow64()? fails
       /\ pc' = "idle"
       /\ outcome' = Win32Err(op, ERROR_ACCESS_DENIED)
       /\ UNCHANGED <<x86_data, x64_data>>
    \/ /\ IsTargetX64 # None
       /\ LET c == HelpDataCell(Unwrap(IsTargetX64))
          IN  \/ /\ c = "unsupported"
                 /\ pc' = "idle"
                 /\ outcome' = PlainErr(op, "UnsupportedTarget")
                 /\ UNCHANGED <<x86_data, x64_data>>
              \/ /\ c # "unsupported"
                 /\ CellValue(c) # None               \* already initialised
                 /\ pc' = next
                 /\ UNCHANGED <<x86_data, x64_data, outcome>>
              \/ /\ c # "unsupported"
                 /\ CellValue(c) = None               \* the loader runs and succeeds
                 /\ LoaderReadsTarget(c) => alive
                 /\ SetCell(c, InjectHelpData(cfg.target64))
                 /\ pc' = next
                 /\ UNCHANGED outcome
              \/ /\ c # "unsupported"
                 /\ CellValue(c) = None               \* the loader fails: cell stays empty
                 /\ pc' = "idle"
                 /\ outcome' = Win32Err(op, IF LoaderReadsTarget(c)
                                            THEN TargetCallFailure
                                            ELSE ERROR_NOT_ENOUGH_MEMORY)
                 /\ UNCHANGED <<x86_data, x64_data>>

\* ------------------------------------------------------------------------
\* Syringe::inject
\* ------------------------------------------------------------------------

\* leaving the function with the defer guard forgotten: the handle stays open
LeaveWithHandleLeaked ==
    /\ fstring' = FALSE
    /\ thread' = NoThread
    /\ UNCHANGED <<hOpen, closes>>

\* leaving the function after `_h` was armed: the defer closes the thread
\* handle and the foreign string is dropped
LeaveWithHandle ==
    /\ hOpen' = FALSE
    /\ closes' = closes + 1
    /\ fstring' = FALSE
    /\ thread' = NoThread

\* the operation performs `step` of its sequence; `failed`: the OS call of the
\* step reported failure
Performed(step, failed) == Append(steps, [step |-> step, failed |-> failed])

\* the exit code is interpreted and the operation returns on it
Interpreted == Performed("interpret", FALSE)

\* the exit code is interpreted and the target's module list is queried
InterpretedThenModules(failed) ==
    Append(Interpreted, [step |-> "modules", failed |-> failed])

\* what WaitForSingleObject(thread_handle, INFINITE) can return
WaitReasons == {"WAIT_OBJECT_0", "WAIT_FAILED"}

\* the check of the wait's result left out
WaitFailedIgnored(reason) == FALSE

\* reason == WAIT_FAILED
WaitFailed(reason) == reason = "WAIT_FAILED"

InjectBegin(p) ==
    /\ pc = "idle"
    /\ nOps < MaxOps
    /\ nOps' = nOps + 1
    /\ deadAtCall' = ~alive
    /\ path' = p
    /\ ejHandle' = NullPtr
    /\ exit_code' = None
    /\ created' = FALSE
    /\ closes' = 0
    /\ steps' = <<>>
    /\ GetInjectHelpData("inject", "inject_alloc")
    /\ UNCHANGED <<cfg, alive, loaded, fstring, thread, hOpen, held, nRace>>
    /\ UNCHANGED <<boxVars, procVars, asmVars, onceVars>>

\* U16CString::from_os_str(..)? and ForeignProcessWideString::allocate_in_process(..)?
InjectAlloc ==
    /\ pc = "inject_alloc"
    /\ \/ /\ path = NulPath
          /\ pc' = "idle"
          /\ outcome' = PlainErr("inject", "PathEncoding")
          /\ UNCHANGED fstring
       \/ /\ path # NulPath
          /\ alive
          /\ pc' = "inject_create"
          /\ fstring' = TRUE
          /\ UNCHANGED outcome
       \/ /\ path # NulPath
          /\ pc' = "idle"
          /\ outcome' = Win32Err("inject", TargetCallFailure)
          /\ UNCHANGED fstring
    /\ UNCHANGED <<cfg, alive, loaded, x86_data, x64_data, deadAtCall, path, ejHandle, thread,
                   created, hOpen, closes, exit_code, held, nOps, nRace, steps>>
    /\ UNCHANGED <<boxVars, procVars, asmVars, onceVars>>

\* CreateRemoteThread(.., LoadLibraryW, foreign_string, ..) and the null check
InjectCreateThread ==
    /\ pc = "inject_create"
    /\ \/ /\ alive
          /\ thread' = [state |-> "running", code |-> 0]
          /\ created' = TRUE
          /\ steps' = Performed("create", FALSE)
          /\ hOpen' = TRUE
          /\ pc' = "inject_wait"
          /\ UNCHANGED <<fstring, outcome>>
       \/ /\ pc' = "idle"                          \* thread_handle.is_null()
          /\ outcome' = Win32Err("inject", TargetCallFailure)
          /\ fstring' = FALSE
          /\ steps' = Performed("create", TRUE)
          /\ UNCHANGED <<thread, created, hOpen>>
    /\ UNCHANGED <<cfg, alive, loaded, x86_data, x64_data, deadAtCall, path, ejHandle,
                   closes, exit_code, held, nOps, nRace>>
    /\ UNCHANGED <<boxVars, procVars, asmVars, onceVars>>

\* WaitForSingleObject(thread_handle, INFINITE)
InjectWait ==
    /\ pc = "inject_wait"
    /\ \E reason \in WaitReasons :
        /\ reason = "WAIT_OBJECT_0" => thread.state = "exited"
        /\ steps' = Performed("wait", reason = "WAIT_FAILED")
        /\ \/ /\ ~WaitFailed(reason)
              /\ pc' = "inject_exitcode"
              /\ UNCHANGED <<fstring, thread, hOpen, closes, outcome>>
           \/ /\ WaitFailed(reason)
              /\ pc' = "idle"
              /\ outcome' = Win32Err("inject", ERROR_INVALID_HANDLE)
              /\ LeaveWithHandle
    /\ UNCHANGED <<cfg, alive, loaded, x86_data, x64_data, deadAtCall, path, ejHandle,
                   created, exit_code, held, nOps, nRace>>
    /\ UNCHANGED <<boxVars, procVars, asmVars, onceVars>>

\* the BOOL GetExitCodeThread returns: FALSE or TRUE
GetExitCodeThreadResults == {0, 1}

\* GetExitCodeThread(thread_handle, &mut exit_code), the check of its result and
\* assert_ne!(result, STILL_ACTIVE)
InjectGetExitCode ==
    /\ pc = "inject_exitcode"
    /\ \E result \in GetExitCodeThreadResults :
        \/ /\ result = 0
           /\ pc' = "idle"
           /\ outcome' = Win32Err("inject", ERROR_INVALID_HANDLE)
           /\ LeaveWithHandle
           /\ steps' = Performed("query", TRUE)
           /\ UNCHANGED exit_code
        \/ /\ result # 0
           /\ result # STILL_ACTIVE
           /\ exit_code' = Some(thread.code)
           /\ steps' = Performed("query", FALSE)
           /\ pc' = "inject_interpret"
           /\ UNCHANGED <<fstring, thread, hOpen, closes, outcome>>
    /\ UNCHANGED <<cfg, alive, loaded, x86_data, x64_data, deadAtCall, path, ejHandle,
                   created, held, nOps, nRace>>
    /\ UNCHANGED <<boxVars, procVars, asmVars, onceVars>>

\* truncated_injected_module_handle.is_null(), with the check left out
IsNullUnchecked(h) == FALSE

\* truncated_injected_module_handle.is_null()
IsNull(h) == h = NullPtr

\* the assert_eq! on the low 32 bits left out
SameLow32Unchecked(found, truncated) == TRUE

\* assert_eq!(injected_module.handle() as u32, truncated_injected_module_handle as u32)
SameLow32(found, truncated) == Trunc32(found) = Trunc32(truncated)

\* the null check of the truncated handle, find_module_by_path(..)?.unwrap(),
\* the assert_eq! on the low 32 bits and the Ok(InjectedModule)
InjectInterpret ==
    /\ pc = "inject_interpret"
    /\ LET truncated_injected_module_handle == ZeroExtend(Unwrap(exit_code))
           injected_module == FindModuleByPath(path)
       IN  \/ /\ IsNull(truncated_injected_module_handle)
              /\ pc' = "idle"
              /\ outcome' = PlainErr("inject", "RemoteOperationFailed")
              /\ steps' = Interpreted
              /\ UNCHANGED held
           \/ /\ ~IsNull(truncated_injected_module_handle)
              /\ pc' = "idle"                      \* find_module_by_path(..)? fails
              /\ outcome' = Win32Err("inject", TargetCallFailure)
              /\ steps' = InterpretedThenModules(TRUE)
              /\ UNCHANGED held
           \/ /\ ~IsNull(truncated_injected_module_handle)
              /\ alive
              /\ injected_module = None                  \* None.unwrap()
              /\ pc' = "panicked"
              /\ outcome' = Panicked("inject")
              /\ steps' = InterpretedThenModules(FALSE)
              /\ UNCHANGED held
           \/ /\ ~IsNull(truncated_injected_module_handle)
              /\ alive
              /\ injected_module # None
              /\ ~SameLow32(Unwrap(injected_module), truncated_injected_module_handle)
              /\ pc' = "panicked"                  \* assert_eq! fails
              /\ outcome' = Panicked("inject")
              /\ steps' = InterpretedThenModules(FALSE)
              /\ UNCHANGED held
           \/ /\ ~IsNull(truncated_injected_module_handle)
              /\ alive
              /\ injected_module # None
              /\ SameLow32(Unwrap(injected_module), truncated_injected_module_handle)
              /\ pc' = "idle"
              /\ outcome' = Succeeded("inject", Unwrap(injected_module))
              /\ steps' = InterpretedThenModules(FALSE)
              /\ held' = Append(held, Unwrap(injected_module))
    /\ LeaveWithHandle
    /\ UNCHANGED <<cfg, alive, loaded, x86_data, x64_data, deadAtCall, path, ejHandle,
                   created, exit_code, nOps, nRace>>
    /\ UNCHANGED <<boxVars, procVars, asmVars, onceVars>>

\* ------------------------------------------------------------------------
\* Syringe::eject
\* ------------------------------------------------------------------------

\* the sequence s without its i-th element
RemoveAt(s, i) == SubSeq(s, 1, i - 1) \o SubSeq(s, i + 1, Len(s))

\* leaving eject after `_h` was armed
LeaveEjectWithHandle ==
    /\ hOpen' = FALSE
    /\ closes' = closes + 1
    /\ thread' = NoThread

\* eject takes the InjectedModule by value: the host gives up held[i]
EjectBegin(i) ==
    /\ pc = "idle"
    /\ nOps < MaxOps
    /\ nOps' = nOps + 1
    /\ deadAtCall' = ~alive
    /\ ejHandle' = held[i]
    /\ held' = RemoveAt(held, i)
    /\ path' = ValidPath
    /\ exit_code' = None
    /\ created' = FALSE
    /\ closes' = 0
    /\ steps' = <<>>
    /\ GetInjectHelpData("eject", "eject_create")
    /\ UNCHANGED <<cfg, alive, loaded, fstring, thread, hOpen, nRace>>
    /\ UNCHANGED <<boxVars, procVars, asmVars, onceVars>>

\* CreateRemoteThread(.., FreeLibrary, module.payload().handle(), ..) and the null check
EjectCreateThread ==
    /\ pc = "eject_create"
    /\ \/ /\ alive
          /\ thread' = [state |-> "running", code |-> 0]
          /\ created' = TRUE
          /\ steps' = Performed("create", FALSE)
          /\ hOpen' = TRUE
          /\ pc' = "eject_wait"
          /\ UNCHANGED outcome
       \/ /\ pc' = "idle"
          /\ outcome' = Win32Err("eject", TargetCallFailure)
          /\ steps' = Performed("create", TRUE)
          /\ UNCHANGED <<thread, created, hOpen>>
    /\ UNCHANGED <<cfg, alive, loaded, x86_data, x64_data, deadAtCall, path, ejHandle, fstring,
                   closes, exit_code, held, nOps, nRace>>
    /\ UNCHANGED <<boxVars, procVars, asmVars, onceVars>>

\* WaitForSingleObject(thread_handle, INFINITE)
EjectWait ==
    /\ pc = "eject_wait"
    /\ \E reason \in WaitReasons :
        /\ reason = "WAIT_OBJECT_0" => thread.state = "exited"
        /\ steps' = Performed("wait", reason = "WAIT_FAILED")
        /\ \/ /\ ~WaitFailed(reason)
              /\ pc' = "eject_exitcode"
              /\ UNCHANGED <<thread, hOpen, closes, outcome>>
           \/ /\ WaitFailed(reason)
              /\ pc' = "idle"
              /\ outcome' = Win32Err("eject", ERROR_INVALID_HANDLE)
              /\ LeaveEjectWithHandle
    /\ UNCHANGED <<cfg, alive, loaded, x86_data, x64_data, deadAtCall, path, ejHandle, fstring,
                   created, exit_code, held, nOps, nRace>>
    /\ UNCHANGED <<boxVars, procVars, asmVars, onceVars>>

EjectGetExitCode ==
    /\ pc = "eject_exitcode"
    /\ \E result \in GetExitCodeThreadResults :
        \/ /\ result = 0
           /\ pc' = "idle"
           /\ outcome' = Win32Err("eject", ERROR_INVALID_HANDLE)
           /\ LeaveEjectWithHandle
           /\ steps' = Performed("query", TRUE)
           /\ UNCHANGED exit_code
        \/ /\ result # 0
           /\ result # STILL_ACTIVE
           /\ exit_code' = Some(thread.code)
           /\ steps' = Performed("query", FALSE)
           /\ pc' = "eject_interpret"
           /\ UNCHANGED <<thread, hOpen, closes, outcome>>
    /\ UNCHANGED <<cfg, alive, loaded, x86_data, x64_data, deadAtCall, path, ejHandle, fstring,
                   created, held, nOps, nRace>>
    /\ UNCHANGED <<boxVars, procVars, asmVars, onceVars>>

\* the assert! on the module list left out
ModuleGoneUnchecked(handles, h) == TRUE

\* assert!(!process.get_module_handles()?.as_ref().contains(&module.payload().handle()))
ModuleGone(handles, h) == h \notin handles

\* the check of the BOOL left out
FreeLibraryFailedUnchecked(free_library_result) == FALSE

\* free_library_result == 0
FreeLibraryFailed(free_library_result) == free_library_result = 0

\* the check of the BOOL, get_module_handles()?, the assert! and Ok(())
EjectInterpret ==
    /\ pc = "eject_interpret"
    /\ LET free_library_result == Unwrap(exit_code)
       IN  \/ /\ FreeLibraryFailed(free_library_result)
              /\ pc' = "idle"
              /\ outcome' = PlainErr("eject", "RemoteOperationFailed")
              /\ steps' = Interpreted
           \/ /\ ~FreeLibraryFailed(free_library_result)
              /\ pc' = "idle"                      \* get_module_handles()? fails
              /\ outcome' = Win32Err("eject", TargetCallFailure)
              /\ steps' = InterpretedThenModules(TRUE)
           \/ /\ ~FreeLibraryFailed(free_library_result)
              /\ alive
              /\ ~ModuleGone(ModuleHandles, ejHandle)
              /\ pc' = "panicked"
              /\ outcome' = Panicked("eject")
              /\ steps' = InterpretedThenModules(FALSE)
           \/ /\ ~FreeLibraryFailed(free_library_result)
              /\ alive
              /\ ModuleGone(ModuleHandles, ejHandle)
              /\ pc' = "idle"
              /\ outcome' = Succeeded("eject", ejHandle)
              /\ steps' = InterpretedThenModules(FALSE)
    /\ LeaveEjectWithHandle
    /\ UNCHANGED <<cfg, alive, loaded, x86_data, x64_data, deadAtCall, path, ejHandle, fstring,
                   created, exit_code, held, nOps, nRace>>
    /\ UNCHANGED <<boxVars, procVars, asmVars, onceVars>>

\* ------------------------------------------------------------------------
\* The target's side
\* ------------------------------------------------------------------------

\* the remote thread runs its start routine to completion
ThreadRun ==
    /\ thread.state = "running"
    /\ alive
    /\ \/ /\ pc = "inject_wait"
          /\ \E b \in Bases(cfg.target64) :
               LET r == LoadLibraryW(path, b)
               IN  /\ loaded' = r.mods
                   /\ thread' = [state |-> "exited", code |-> Trunc32(r.ret)]
       \/ /\ pc = "eject_wait"
          /\ LET r == FreeLibrary(ejHandle)
             IN  /\ loaded' = r.mods
                 /\ thread' = [state |-> "exited", code |-> r.ret]
    /\ UNCHANGED <<cfg, alive, x86_data, x64_data, pc, deadAtCall, path, ejHandle, fstring,
                   created, hOpen, closes, exit_code, held, outcome, nOps, nRace, steps>>
    /\ UNCHANGED <<boxVars, procVars, asmVars, onceVars>>

\* the exit codes a target ends with: the one Process::kill passes, and one a
\* target exiting on its own may pass (any DWORD, 259 included)
ProcessExitCodes == {KillExitCode, STILL_ACTIVE}

\* Process::kill, or the target dying on its own: its threads end with the
\* process exit code
Kill ==
    /\ alive
    /\ alive' = FALSE
    /\ \E code \in ProcessExitCodes :
         thread' = IF thread.state = "running"
                   THEN [state |-> "exited", code |-> code]
                   ELSE thread
    /\ UNCHANGED <<cfg, loaded, x86_data, x64_data, pc, deadAtCall, path, ejHandle, fstring,
                   created, hOpen, closes, exit_code, held, outcome, nOps, nRace, steps>>
    /\ UNCHANGED <<boxVars, procVars, asmVars, onceVars>>

\* code of the target itself loads or frees the payload while the host works
TargetRace ==
    /\ alive
    /\ nRace < MaxRace
    /\ nRace' = nRace + 1
    /\ \/ \E b \in Bases(cfg.target64) : loaded' = LoadLibraryW(ValidPath, b).mods
       \/ /\ loaded.rc > 0
          /\ loaded' = FreeLibrary(loaded.base).mods
    /\ UNCHANGED <<cfg, alive, x86_data, x64_data, pc, deadAtCall, path, ejHandle, fstring, thread,
                   created, hOpen, closes, exit_code, held, outcome, nOps, steps>>
    /\ UNCHANGED <<boxVars, procVars, asmVars, onceVars>>

\* ------------------------------------------------------------------------
\* SpecInject
\* ------------------------------------------------------------------------

\* a fresh Syringe and a fresh target, whatever the host threads
InitSyringe ==
    /\ cfg \in Configs
    /\ alive = TRUE
    /\ loaded = NotLoaded
    /\ x86_data = None
    /\ x64_data = None
    /\ pc = "idle"
    /\ deadAtCall = FALSE
    /\ path = ValidPath
    /\ ejHandle = NullPtr
    /\ fstring = FALSE
    /\ thread = NoThread
    /\ created = FALSE
    /\ hOpen = FALSE
    /\ closes = 0
    /\ exit_code = None
    /\ held = <<>>
    /\ outcome = NoOutcome
    /\ nOps = 0
    /\ nRace = 0
    /\ steps = <<>>
    /\ heap = EmptyHeap
    /\ boxOutcome = NoBoxOutcome
    /\ inject_help_data = None
    /\ get_proc_address_stub = None
    /\ procedures = <<>>
    /\ rthread = NoRemoteThread
    /\ frame = Idle
    /\ procOutcome = NoProcOutcome
    /\ nProcOps = 0
    /\ callSteps = <<>>
    /\ asm = NoAsm

InitInject ==
    /\ InitSyringe
    /\ once = NoHosts

NextInject ==
    \/ \E p \in Paths : InjectBegin(p)
    \/ InjectAlloc
    \/ InjectCreateThread
    \/ InjectWait
    \/ InjectGetExitCode
    \/ InjectInterpret
    \/ \E i \in 1..Len(held) : EjectBegin(i)
    \/ EjectCreateThread
    \/ EjectWait
    \/ EjectGetExitCode
    \/ EjectInterpret
    \/ ThreadRun
    \/ Kill
    \/ TargetRace

SpecInject == InitInject /\ [][NextInject]_vars

\* ------------------------------------------------------------------------
\* Properties of inject / eject (checked under SpecInject)
\* ------------------------------------------------------------------------

\* the host is between operations and `outcome` is what operation op returned
Returned(op) == pc = "idle" /\ outcome.op = op

\* the operation op is over: it returned or it panicked
Ended(op) == pc \in {"idle", "panicked"} /\ outcome.op = op

C2_InvalidPathIsRemoteIo126 ==
    (Returned("inject") /\ path = InvalidPath /\ exit_code = Some(0))
        => /\ outcome.status = "Err"
           /\ outcome.err = "RemoteIo"
           /\ outcome.oscode = ERROR_MOD_NOT_FOUND

\* C3: an inject of the valid path called after the target was killed ends
\* with Err(ProcessInaccessible), with no other error kind and no module.
C3_KilledTargetIsInaccessible ==
    (Ended("inject") /\ deadAtCall /\ path = ValidPath)
        => /\ pc = "idle"
           /\ outcome.status = "Err"
           /\ outcome.err = "ProcessInaccessible"
           /\ outcome.module = NullPtr

\* inject(valid_path) on a killed target came back, a help-data cell being
\* already filled by an earlier successful inject
C3_Witness ==
    /\ Returned("inject")
    /\ deadAtCall
    /\ path = ValidPath
    /\ outcome.err = "ProcessInaccessible"
    /\ (x64_data # None \/ x86_data # None)

\* C4: every step in which inject returns Ok returns the module the target's
\* module list holds under the payload path at that moment, the low 32 bits
\* of its handle equal the exit code read from the thread, and that exit code
\* is not zero.
C4_ReturnedModuleMatchesExitCode ==
    [][(pc = "inject_interpret" /\ pc' = "idle" /\ outcome'.status = "Ok")
          => /\ FindModuleByPath(path) = Some(outcome'.module)
             /\ Trunc32(outcome'.module) = Unwrap(exit_code)
             /\ Unwrap(exit_code) # 0
             /\ held' = Append(held, outcome'.module)]_vars

\* inject returned a module loaded above 4 GiB: the exit code is truncated
C4_Witness ==
    /\ Returned("inject")
    /\ outcome.status = "Ok"
    /\ outcome.module.hi > 0
    /\ exit_code = Some(outcome.module.lo)

\* C5: every step in which eject returns Ok for a module returned by inject
\* leaves the target's module-handle list without that module's handle.
C5_EjectedModuleIsGone ==
    [][(pc = "eject_interpret" /\ pc' = "idle" /\ outcome'.status = "Ok")
          => ejHandle \notin ModuleHandles']_vars

\* eject returned Ok for an injected module
C5_Witness ==
    /\ Returned("eject")
    /\ outcome.status = "Ok"
    /\ ejHandle # NullPtr
    /\ exit_code = Some(1)

\* C8: when inject or eject has returned, the thread handle CreateRemoteThread
\* gave it was closed exactly once and is no longer open; when no thread was
\* created no handle was closed; and no handle is closed while the operation
\* still uses it or closed twice.
C8_ThreadHandleClosedOnce ==
    /\ (Returned("inject") \/ Returned("eject"))
          => IF created THEN closes = 1 /\ ~hOpen ELSE closes = 0 /\ ~hOpen
    /\ closes <= 1
    /\ pc \in {"inject_wait", "inject_exitcode", "inject_interpret",
               "eject_wait", "eject_exitcode", "eject_interpret"}
          => created /\ hOpen /\ closes = 0

\* an operation returned an error after its thread was created (a failed
\* wait or exit-code query), and the handle was closed
C8_Witness ==
    /\ (Returned("inject") \/ Returned("eject"))
    /\ created
    /\ outcome.status = "Err"
    /\ outcome.err = "RemoteIo"
    /\ closes = 1

\* ------------------------------------------------------------------------
\* Raw allocator and multi-buffer allocator
\* ------------------------------------------------------------------------

\* `let x = v; rest`
Let(v, rest(_)) == rest(v)

Min(S) == CHOOSE x \in S : \A y \in S : x <= y
Max2(a, b) == IF a >= b THEN a ELSE b

\* address arithmetic inside one region (no carry into the high half)
PtrAdd(p, n) == Ptr(p.hi, p.lo + n)

RoundUpPage(n) == ((n + DefaultPage - 1) \div DefaultPage) * DefaultPage

\* where VirtualAllocEx places the i-th region of the target
RegionBase(i) == Ptr(IF cfg.target64 THEN 1 ELSE 0, i * RegionStride)

\* a raw allocator right after construction: one extent covers the region
NewRaw(i, size) ==
    [base |-> RegionBase(i), size |-> size, free |-> <<[off |-> 0, len |-> size]>>]

\* index of the first free extent that holds `size` bytes, 0 if none does
FirstFit(free, size) ==
    LET S == {i \in 1..Len(free) : free[i].len >= size}
    IN  IF S = {} THEN 0 ELSE Min(S)

RawFits(ra, size) == FirstFit(ra.free, size) # 0

\* a split that leaves the remainder as long as the extent was
SplitExtentUnshrunk(ra, i, e, size) ==
    [ra |-> [ra EXCEPT !.free = SubSeq(ra.free, 1, i - 1)
                                  \o (IF e.len = size THEN <<>>
                                      ELSE <<[off |-> e.off + size, len |-> e.len]>>)
                                  \o SubSeq(ra.free, i + 1, Len(ra.free))],
     alloc |-> [base |-> PtrAdd(ra.base, e.off), len |-> size]]

\* the extent e of the free list at index i is split for `size` bytes
SplitExtent(ra, i, e, size) ==
    [ra |-> [ra EXCEPT !.free = SubSeq(ra.free, 1, i - 1)
                                  \o (IF e.len = size THEN <<>>
                                      ELSE <<[off |-> e.off + size, len |-> e.len - size]>>)
                                  \o SubSeq(ra.free, i + 1, Len(ra.free))],
     alloc |-> [base |-> PtrAdd(ra.base, e.off), len |-> size]]

\* RawAllocator::alloc: split the first fitting extent
RawAlloc(ra, size) ==
    Let(FirstFit(ra.free, size), LAMBDA i : SplitExtent(ra, i, ra.free[i], size))

\* RawAllocator::contains
RawContains(ra, p) ==
    p.hi = ra.base.hi /\ ra.base.lo <= p.lo /\ p.lo < ra.base.lo + ra.size

\* merge extent i of f with extent i + 1 when they are adjacent
MergeAt(f, i) ==
    IF i >= 1 /\ i < Len(f) /\ f[i].off + f[i].len = f[i + 1].off
    THEN SubSeq(f, 1, i - 1)
           \o <<[off |-> f[i].off, len |-> f[i].len + f[i + 1].len]>>
           \o SubSeq(f, i + 2, Len(f))
    ELSE f

\* RawAllocator::free: insert at the sorted position, merge with both neighbours
RawFree(ra, a) ==
    LET off == a.base.lo - ra.base.lo
        k == Cardinality({i \in 1..Len(ra.free) : ra.free[i].off < off})
        inserted == SubSeq(ra.free, 1, k) \o <<[off |-> off, len |-> a.len]>>
                      \o SubSeq(ra.free, k + 1, Len(ra.free))
    IN  [ra EXCEPT !.free = MergeAt(MergeAt(inserted, k + 1), k)]

\* a growth that always reserves one default page
GrowthSizeOnePage(size) == DefaultPage

\* the size of the raw allocator created when no existing one fits
GrowthSize(size) == Max2(DefaultPage, RoundUpPage(size))

\* what alloc returns with the out-of-capacity signal
NoAllocation == [base |-> Ptr(0, 0), len |-> 0]

\* DynamicMultiBufferAllocator::alloc: the first raw allocator that fits, else a
\* fresh one sized max(default_page, round_up_page(size)); `grew` tells that a
\* region had to be reserved
MultiAlloc(st, size) ==
    Let({i \in 1..Len(st) : RawFits(st[i], size)},
        LAMBDA S :
          IF S # {}
          THEN Let(RawAlloc(st[Min(S)], size),
                   LAMBDA r : [st |-> [st EXCEPT ![Min(S)] = r.ra], alloc |-> r.alloc,
                               grew |-> FALSE, full |-> FALSE])
          ELSE Let(NewRaw(Len(st) + 1, GrowthSize(size)),
                   LAMBDA fresh :
                     IF RawFits(fresh, size)
                     THEN Let(RawAlloc(fresh, size),
                              LAMBDA r : [st |-> Append(st, r.ra), alloc |-> r.alloc,
                                          grew |-> TRUE, full |-> FALSE])
                     ELSE [st |-> st, alloc |-> NoAllocation, grew |-> TRUE, full |-> TRUE]))

\* DynamicMultiBufferAllocator::free: delegate to the raw allocator that owns it
MultiFree(st, a) ==
    LET i == Min({j \in 1..Len(st) : RawContains(st[j], a.base)})
    IN  [st EXCEPT ![i] = RawFree(@, a)]

\* ------------------------------------------------------------------------
\* Remote memory primitive
\* ------------------------------------------------------------------------

\* the key of an address in the map of written bytes (injective while the low
\* half stays below AddrSpan, as every address of the model does)
AddrKey(p) == p.hi * AddrSpan + p.lo

\* keys of the n bytes starting at p
Range(p, n) == AddrKey(p)..(AddrKey(p) + n - 1)

\* ProcessMemorySlice::write at offset 0: bytes is a sequence of bytes
MemWrite(m, p, bytes) ==
    [a \in DOMAIN m \cup Range(p, Len(bytes)) |->
        IF a \in Range(p, Len(bytes)) THEN bytes[a - AddrKey(p) + 1] ELSE m[a]]

\* one byte of the target; pages are zero-filled when reserved
MemByte(m, p) == IF AddrKey(p) \in DOMAIN m THEN m[AddrKey(p)] ELSE 0

\* ProcessMemorySlice::read of n bytes at p
MemRead(m, p, n) == [i \in 1..n |-> MemByte(m, PtrAdd(p, i - 1))]

\* ------------------------------------------------------------------------
\* RemoteBoxAllocator / RemoteBox
\* ------------------------------------------------------------------------

\* RefCell::borrow_mut on the shared allocator: granted when nothing is
\* borrowed (flag 0), else the conflict is recorded (the call panics)
BorrowMut(h) ==
    [h EXCEPT !.conflict = @ \/ h.flag # 0, !.flag = IF @ = 0 THEN -1 ELSE @]

\* a RefMut that is never dropped
ReleaseMutForgotten(h) == h

\* the RefMut temporary is dropped at the end of its statement
ReleaseMut(h) == [h EXCEPT !.flag = IF @ = -1 THEN 0 ELSE @]

\* RefCell::borrow: granted unless mutably borrowed
BorrowRef(h) ==
    [h EXCEPT !.conflict = @ \/ h.flag < 0, !.flag = IF @ >= 0 THEN @ + 1 ELSE @]

\* the Ref temporary is dropped when the call returns
ReleaseRef(h) == [h EXCEPT !.flag = IF @ > 0 THEN @ - 1 ELSE @]

\* RemoteBoxAllocator::process, RemoteBox::process: self.0.borrow().process()
process(h) == ReleaseRef(BorrowRef(h))

\* RemoteBox::memory: a slice over the allocation, in self.process()
memory(h, b) == process(h)

\* RemoteBox::new
NewBox(a) == [base |-> a.base, len |-> a.len, live |-> TRUE, frees |-> 0, last |-> None]

\* the Allocation a box holds
AllocationOf(b) == [base |-> b.base, len |-> b.len]

LiveBoxes(h) == {i \in 1..Len(h.boxes) : h.boxes[i].live}

\* RemoteBoxAllocator::alloc_raw: the heap after the call and the new box (0
\* for Err: the OS refused the region a growing allocator asked for)
alloc_raw(h, size, os_ok) ==
    Let(MultiAlloc(h.ralloc, size),
        LAMBDA r :
          IF r.full
          THEN [heap |-> ReleaseMut(BorrowMut(h)), box |-> 0, err |-> "OutOfCapacity"]
          ELSE IF r.grew /\ ~os_ok
          THEN [heap |-> ReleaseMut(BorrowMut(h)), box |-> 0, err |-> "Win32"]
          ELSE [heap |-> [ReleaseMut(BorrowMut(h))
                            EXCEPT !.ralloc = r.st,
                                   !.boxes = Append(h.boxes, NewBox(r.alloc))],
                box |-> Len(h.boxes) + 1, err |-> "none"])

\* a drop that forgets to return the allocation
DropLeaked(h, b) ==
    [h EXCEPT !.boxes[b].live = FALSE]

\* Drop for RemoteBox: self.allocator.borrow_mut().free(&self.allocation)
Drop(h, b) ==
    [ReleaseMut(BorrowMut(h))
       EXCEPT !.ralloc = MultiFree(h.ralloc, AllocationOf(h.boxes[b])),
              !.boxes[b].live = FALSE,
              !.boxes[b].frees = @ + 1]

\* a write that puts the value one byte past the start of the allocation
WriteAtOffsetOne(h, b, bytes) ==
    [h EXCEPT !.mem = MemWrite(h.mem, PtrAdd(h.boxes[b].base, 1), bytes),
              !.boxes[b].last = Some(bytes)]

\* RemoteBox::write: the value's bytes at offset 0 of the allocation (`last`
\* remembers the value for the round-trip property)
write(h, b, bytes) ==
    [memory(h, b) EXCEPT !.mem = MemWrite(h.mem, h.boxes[b].base, bytes),
              !.boxes[b].last = Some(bytes),
              !.dirty = @ \cup Range(h.boxes[b].base, Len(bytes))]

\* RemoteBox::read: the bytes of a value of the box's type
read(h, b) == MemRead(h.mem, h.boxes[b].base, h.boxes[b].len)

\* the error path of alloc_and_copy frees the allocation by hand and drops the
\* box as well
DropFailedCopyTwice(h, b) ==
    [Drop(h, b) EXCEPT !.ralloc = MultiFree(Drop(h, b).ralloc, AllocationOf(h.boxes[b]))]

\* alloc_and_copy, `b.write(value)?` failing: b goes out of scope
DropFailedCopy(h, b) == Drop(h, b)

\* RemoteBoxAllocator::alloc_and_copy: alloc_uninit_for(value)?, b.write(value)?, Ok(b)
alloc_and_copy(h, bytes, os_ok, write_ok) ==
    Let(alloc_raw(h, Len(bytes), os_ok),
        LAMBDA r :
          IF r.box = 0 THEN r
          ELSE IF ~write_ok
          THEN [heap |-> DropFailedCopy(memory(r.heap, r.box), r.box), box |-> 0,
                err |-> "Win32"]
          ELSE [heap |-> write(r.heap, r.box, bytes), box |-> r.box, err |-> "none"])

\* ------------------------------------------------------------------------
\* SpecBox: a client of RemoteBoxAllocator
\* ------------------------------------------------------------------------

BoxResult(op, b, v) ==
    [op |-> op, status |-> IF b = 0 THEN "Err" ELSE "Ok", box |-> b, value |-> v,
     error |-> IF b = 0 THEN "Win32" ELSE "none"]

BoxAllocRaw(size) ==
    /\ Len(heap.boxes) < MaxAllocs
    /\ \E os_ok \in BOOLEAN :
         LET r == alloc_raw(heap, size, os_ok)
         IN  /\ heap' = r.heap
             /\ boxOutcome' = [BoxResult("alloc_raw", r.box, <<>>) EXCEPT !.error = r.err]
    /\ UNCHANGED <<cfg, alive, injOnly, asmVars, onceVars, procVars>>

BoxAllocAndCopy(bytes) ==
    /\ Len(heap.boxes) < MaxAllocs
    /\ \E os_ok \in BOOLEAN, write_ok \in BOOLEAN :
         LET r == alloc_and_copy(heap, bytes, os_ok, write_ok)
         IN  /\ heap' = r.heap
             /\ boxOutcome' = [BoxResult("alloc_and_copy", r.box, bytes) EXCEPT !.error = r.err]
    /\ UNCHANGED <<cfg, alive, injOnly, asmVars, onceVars, procVars>>

\* RemoteBox::write of a value of the box's (sized) type
BoxWrite(b, bytes) ==
    /\ b \in LiveBoxes(heap)
    /\ Len(bytes) = heap.boxes[b].len
    /\ \E write_ok \in BOOLEAN :
         /\ heap' = IF write_ok THEN write(heap, b, bytes) ELSE memory(heap, b)
         /\ boxOutcome' = BoxResult("write", IF write_ok THEN b ELSE 0, bytes)
    /\ UNCHANGED <<cfg, alive, injOnly, asmVars, onceVars, procVars>>

\* RemoteBox::read of a value of the box's (sized) type
BoxRead(b) ==
    /\ b \in LiveBoxes(heap)
    /\ heap.boxes[b].len <= 2
    /\ boxOutcome' = BoxResult("read", b, read(heap, b))
    /\ heap' = memory(heap, b)
    /\ UNCHANGED <<cfg, alive, injOnly, asmVars, onceVars, procVars>>

\* the box goes out of scope
BoxDrop(b) ==
    /\ b \in LiveBoxes(heap)
    /\ heap' = Drop(heap, b)
    /\ boxOutcome' = BoxResult("drop", b, <<>>)
    /\ UNCHANGED <<cfg, alive, injOnly, asmVars, onceVars, procVars>>

\* a host built for x64 with into_x86_from_x64 serves targets of both bitnesses
BoxConfigs == {c \in Configs : c.host64 /\ c.feat}

InitBox ==
    /\ InitInject
    /\ cfg \in BoxConfigs

NextBox ==
    \/ \E size \in Sizes : BoxAllocRaw(size)
    \/ \E bytes \in CopyValues : BoxAllocAndCopy(bytes)
    \/ \E b \in 1..Len(heap.boxes), bytes \in CopyValues : BoxWrite(b, bytes)
    \/ \E b \in 1..Len(heap.boxes) : BoxRead(b)
    \/ \E b \in 1..Len(heap.boxes) : BoxDrop(b)

SpecBox == InitBox /\ [][NextBox]_vars

\* ------------------------------------------------------------------------
\* Properties of the remote boxes (checked under SpecBox)
\* ------------------------------------------------------------------------

\* the raw allocator's free list covers its whole region
FullyFree(ra) == ra.free = <<[off |-> 0, len |-> ra.size]>>

\* the byte ranges of two boxes have no address in common
DisjointBoxes(b1, b2) ==
    \/ b1.base.hi # b2.base.hi
    \/ b1.base.lo + b1.len <= b2.base.lo
    \/ b2.base.lo + b2.len <= b1.base.lo

\* C9: every box issued has been freed at most once, a box has been freed
\* exactly once as soon as it is dropped and not before, and when every box is
\* dropped each raw allocator has its whole region back on its free list.
C9_BoxFreedExactlyOnce ==
    /\ \A i \in 1..Len(heap.boxes) :
         /\ heap.boxes[i].frees <= 1
         /\ heap.boxes[i].live <=> heap.boxes[i].frees = 0
    /\ LiveBoxes(heap) = {}
         => \A r \in 1..Len(heap.ralloc) : FullyFree(heap.ralloc[r])

\* three boxes in two regions were issued, one by a failed alloc_and_copy,
\* and all are dropped
C9_Witness ==
    /\ Len(heap.boxes) >= 3
    /\ LiveBoxes(heap) = {}
    /\ Len(heap.ralloc) >= 2
    /\ boxOutcome.op = "alloc_and_copy"
    /\ boxOutcome.status = "Err"

\* C10: the byte ranges of any two distinct live boxes are disjoint.
C10_LiveBoxesDisjoint ==
    \A i \in LiveBoxes(heap), j \in LiveBoxes(heap) :
        i # j => DisjointBoxes(heap.boxes[i], heap.boxes[j])

\* two live boxes share a region, one of them in space a dropped box gave back
C10_Witness ==
    \E i \in LiveBoxes(heap), j \in LiveBoxes(heap), d \in 1..Len(heap.boxes) :
        /\ i # j
        /\ heap.boxes[i].base.lo \div RegionStride = heap.boxes[j].base.lo \div RegionStride
        /\ ~heap.boxes[d].live
        /\ ~DisjointBoxes(heap.boxes[d], heap.boxes[i])

\* ------------------------------------------------------------------------
\* Byte images
\* ------------------------------------------------------------------------

\* the k low bytes of n, little-endian
LE(n, k) == [i \in 1..k |-> (n \div (256 ^ (i - 1))) % 256]

\* the number four little-endian bytes stand for
FromLE(bytes) == bytes[1] + 256 * bytes[2] + 65536 * bytes[3] + 16777216 * bytes[4]

\* `ptr as u32` and `ptr as u64` as immediates of an instruction
Imm32(p) == LE(p.lo, 4)
Imm64(p) == LE(p.lo, 4) \o LE(p.hi, 4)

\* a pointer read back from 4 or 8 bytes
PtrFromBytes(bytes) ==
    IF Len(bytes) = 4 THEN Ptr(0, FromLE(bytes))
    ELSE Ptr(FromLE(SubSeq(bytes, 5, 8)), FromLE(SubSeq(bytes, 1, 4)))

\* size_of::<FARPROC>() and of every host pointer
HostPtrSize == IF cfg.host64 THEN 8 ELSE 4

\* the byte image of a host pointer
HostPtrBytes(p) == IF cfg.host64 THEN Imm64(p) ELSE Imm32(p)

\* the byte image of GetProcAddressParams { module_handle: u64, name: u64 } (repr(C))
GetProcAddressParams(module_handle, name) == Imm64(module_handle) \o Imm64(name)

\* `procedure as u32 as usize == procedure as usize`
FitsU32(p) == p.hi = 0

\* the assertions at the head of the emitters: both addresses are non-null, and
\* for a 32-bit target both fit in 32 bits
AssertsFail(procedure, return_buffer) ==
    \/ procedure = NullPtr
    \/ return_buffer = NullPtr
    \/ ~cfg.target64 /\ ~(FitsU32(procedure) /\ FitsU32(return_buffer))

\* ------------------------------------------------------------------------
\* Shellcode
\* ------------------------------------------------------------------------

\* an instruction whose encoding holds no address relative to its own
Fixed(bytes) == [op |-> "fixed", bytes |-> bytes, target |-> NullPtr]

\* `call target` in its direct form: E8 rel32, relative to the next instruction
CallRel32(target) == [op |-> "call_rel32", bytes |-> <<>>, target |-> target]

\* the four bytes of a (possibly negative) 32-bit displacement, two's complement
Disp32(d) == IF d >= 0 THEN LE(d, 4) ELSE [i \in 1..4 |-> 255 - LE(-d - 1, 4)[i]]

\* the encoding of one instruction placed at address ip
Encode(ins, ip) ==
    IF ins.op = "call_rel32"
    THEN <<232>> \o Disp32(ins.target.lo - (ip + 5))
    ELSE ins.bytes

\* CodeAssembler::assemble(ip): the instructions encoded one after the other
RECURSIVE assemble(_, _)
assemble(program, ip) ==
    IF program = <<>> THEN <<>>
    ELSE Encode(Head(program), ip)
           \o assemble(Tail(program), ip + Len(Encode(Head(program), ip)))

\* asm.assemble(0x1234_5678) and the base of the debug re-assembly, 0x1111_2222
AssembleBase == 305419896
ReassembleBase == 286335522

\* a direct call of the function instead of a call through the register
DirectCall32(fn) == <<CallRel32(fn)>>

\* mov eax, fn; call eax
LoadAndCall32(fn) == <<Fixed(<<184>> \o Imm32(fn)), Fixed(<<255, 208>>)>>

\* mov rax, fn; call rax
LoadAndCall64(fn) == <<Fixed(<<72, 184>> \o Imm64(fn)), Fixed(<<255, 208>>)>>

\* instructions of the call_procedure stub for a 32-bit target
call_procedure_x86(procedure, return_buffer) ==
    <<Fixed(<<139, 68, 36, 4>>),                     \* mov eax, [esp+4]
      Fixed(<<104>> \o Imm32(return_buffer)),        \* push return_buffer
      Fixed(<<80>>)>>                                \* push eax
    \o LoadAndCall32(procedure)                      \* mov eax, procedure; call eax
    \o <<Fixed(<<184, 0, 0, 0, 0>>),                 \* mov eax, 0
         Fixed(<<194, 4, 0>>)>>                      \* ret 4

\* instructions of the call_procedure stub for a 64-bit target
call_procedure_x64(procedure, return_buffer) ==
    <<Fixed(<<72, 131, 236, 40>>),                   \* sub rsp, 40
      Fixed(<<72, 186>> \o Imm64(return_buffer)),    \* mov rdx, return_buffer
      Fixed(<<72, 137, 201>>)>>                      \* mov rcx, rcx
    \o LoadAndCall64(procedure)                      \* mov rax, procedure; call rax
    \o <<Fixed(<<72, 184>> \o Imm64(NullPtr)),       \* mov rax, 0
         Fixed(<<72, 131, 196, 40>>),                \* add rsp, 40
         Fixed(<<72, 184>> \o Imm64(NullPtr)),       \* mov rax, 0
         Fixed(<<195>>)>>                            \* ret

\* instructions of the get_proc_address stub for a 32-bit target
get_proc_address_x86(get_proc_address, return_buffer) ==
    <<Fixed(<<139, 68, 36, 4>>),                     \* mov eax, [esp+4]
      Fixed(<<255, 112, 8>>),                        \* push dword [eax+8]
      Fixed(<<255, 48>>)>>                           \* push dword [eax+0]
    \o LoadAndCall32(get_proc_address)               \* mov eax, get_proc_address; call eax
    \o <<Fixed(<<163>> \o Imm32(return_buffer)),     \* mov [return_buffer], eax
         Fixed(<<184, 0, 0, 0, 0>>),                 \* mov eax, 0
         Fixed(<<194, 4, 0>>)>>                      \* ret 4

\* instructions of the get_proc_address stub for a 64-bit target
get_proc_address_x64(get_proc_address, return_buffer) ==
    <<Fixed(<<72, 131, 236, 40>>),                   \* sub rsp, 40
      Fixed(<<72, 139, 81, 8>>),                     \* mov rdx, [rcx+8]
      Fixed(<<72, 139, 9>>)>>                        \* mov rcx, [rcx+0]
    \o LoadAndCall64(get_proc_address)               \* mov rax, get_proc_address; call rax
    \o <<Fixed(<<72, 163>> \o Imm64(return_buffer)), \* mov [return_buffer], rax
         Fixed(<<72, 184>> \o Imm64(NullPtr)),       \* mov rax, 0
         Fixed(<<72, 131, 196, 40>>),                \* add rsp, 40
         Fixed(<<195>>)>>                            \* ret

\* bytes of the call_procedure stub for a 32-bit target
build_call_procedure_x86(procedure, return_buffer) ==
    assemble(call_procedure_x86(procedure, return_buffer), AssembleBase)

\* bytes of the call_procedure stub for a 64-bit target
build_call_procedure_x64(procedure, return_buffer) ==
    assemble(call_procedure_x64(procedure, return_buffer), AssembleBase)

\* bytes of the get_proc_address stub for a 32-bit target
build_get_proc_address_x86(get_proc_address, return_buffer) ==
    assemble(get_proc_address_x86(get_proc_address, return_buffer), AssembleBase)

\* bytes of the get_proc_address stub for a 64-bit target
build_get_proc_address_x64(get_proc_address, return_buffer) ==
    assemble(get_proc_address_x64(get_proc_address, return_buffer), AssembleBase)

\* ------------------------------------------------------------------------
\* The target's modules and exports
\* ------------------------------------------------------------------------

\* where the payload and kernel32 sit in the target
PayloadBase == IF cfg.target64 THEN Ptr(1, 3 * RegionStride * 16) ELSE Ptr(0, 3 * RegionStride * 16)
Kernel32Base == IF cfg.target64 THEN Ptr(1, 5 * RegionStride * 16) ELSE Ptr(0, 5 * RegionStride * 16)

\* export names as C strings (ASCII, without the terminating NUL)
EchoName == <<101, 99, 104, 111>>
MissingName == <<110, 111>>
Names == {EchoName, MissingName}

\* the payload's `echo`, and kernel32's GetProcAddress
EchoAddr == PtrAdd(PayloadBase, 4096)
GetProcAddressAddr == PtrAdd(Kernel32Base, 8192)

\* CString::new(name).unwrap().as_bytes_with_nul()
as_bytes_with_nul(name) == name \o <<0>>

\* the C string at p: the bytes before the first NUL (names are shorter than limit)
CStrAt(m, p, limit) ==
    LET n == Min({i \in 0..limit : i = limit \/ MemByte(m, PtrAdd(p, i)) = 0})
    IN  MemRead(m, p, n)

\* kernel32!GetProcAddress(hModule, lpProcName) inside the target
GetProcAddress(m, hModule, lpProcName) ==
    IF hModule = PayloadBase /\ lpProcName # NullPtr /\ CStrAt(m, lpProcName, 8) = EchoName
    THEN EchoAddr
    ELSE NullPtr

\* ------------------------------------------------------------------------
\* Execution of a stub by a remote thread
\* ------------------------------------------------------------------------

\* the code bytes with the bytes at `holes` blanked
Skeleton(c, holes) == [i \in 1..Len(c) |-> IF i \in holes THEN 0 ELSE c[i]]

\* the operands of the stub at `entry`: which trampoline it is, the function it
\* calls and the result address baked into it ("bad": not one of the trampolines)
Decode(m, entry) ==
    LET c32 == MemRead(m, entry, 25)
        g32 == MemRead(m, entry, 29)
        c64 == MemRead(m, entry, 54)
        g64 == MemRead(m, entry, 48)
        Bad == [kind |-> "bad", fn |-> NullPtr, rb |-> NullPtr]
    IN  IF ~cfg.target64
        THEN IF Skeleton(c32, (6..9) \cup (12..15))
                  = build_call_procedure_x86(NullPtr, NullPtr)
             THEN [kind |-> "call", fn |-> PtrFromBytes(SubSeq(c32, 12, 15)),
                   rb |-> PtrFromBytes(SubSeq(c32, 6, 9))]
             ELSE IF Skeleton(g32, (11..14) \cup (18..21))
                       = build_get_proc_address_x86(NullPtr, NullPtr)
             THEN [kind |-> "gpa", fn |-> PtrFromBytes(SubSeq(g32, 11, 14)),
                   rb |-> PtrFromBytes(SubSeq(g32, 18, 21))]
             ELSE Bad
        ELSE IF Skeleton(c64, (7..14) \cup (20..27))
                  = build_call_procedure_x64(NullPtr, NullPtr)
             THEN [kind |-> "call", fn |-> PtrFromBytes(SubSeq(c64, 20, 27)),
                   rb |-> PtrFromBytes(SubSeq(c64, 7, 14))]
             ELSE IF Skeleton(g64, (14..21) \cup (26..33))
                       = build_get_proc_address_x64(NullPtr, NullPtr)
             THEN [kind |-> "gpa", fn |-> PtrFromBytes(SubSeq(g64, 14, 21)),
                   rb |-> PtrFromBytes(SubSeq(g64, 26, 33))]
             ELSE Bad

\* width of a pointer in the target
TargetPtrSize == IF cfg.target64 THEN 8 ELSE 4

\* the byte image of a register of the target
TargetPtrBytes(p) == IF cfg.target64 THEN Imm64(p) ELSE Imm32(p)

\* pub extern "system" fn echo(i: *const u32, o: *mut u32) { unsafe { *o = *i } }
echo(m, i, o) == MemWrite(m, o, MemRead(m, i, 4))

\* what running the stub at `entry` with lpParameter = param does to the target:
\* the memory afterwards, whether the thread faulted, what GetProcAddress
\* returned and what the callee stored through its result pointer
RunStub(m, entry, param) ==
    LET d == Decode(m, entry)
        Fault == [mem |-> m, crashed |-> TRUE, returned |-> <<>>, stored |-> <<>>]
    IN  IF d.kind = "call"
        THEN IF d.fn = EchoAddr
             THEN [mem |-> echo(m, param, d.rb), crashed |-> FALSE,
                   returned |-> <<>>, stored |-> <<MemRead(m, param, 4)>>]
             ELSE Fault
        ELSE IF d.kind = "gpa"
        THEN IF d.fn = GetProcAddressAddr
             THEN LET hModule == PtrFromBytes(MemRead(m, param, TargetPtrSize))
                      lpProcName == PtrFromBytes(MemRead(m, PtrAdd(param, 8), TargetPtrSize))
                      ret == GetProcAddress(m, hModule, lpProcName)
                  IN  [mem |-> MemWrite(m, d.rb, TargetPtrBytes(ret)), crashed |-> FALSE,
                       returned |-> <<ret>>, stored |-> <<>>]
             ELSE Fault
        ELSE Fault

\* ------------------------------------------------------------------------
\* Stubs
\* ------------------------------------------------------------------------

\* the fallible step number k of the running operation succeeds: the target
\* is alive and the OS does not refuse this call
OsOk(fail, k) == alive /\ fail # k

\* size_of::<u32>(): the argument and result type of the payload's procedures
SizeOfU32 == 4

\* size_of::<GetProcAddressParams>()
SizeOfParams == 16

\* load_inject_help_data_for_process: where kernel32's exports are in the target
load_inject_help_data_for_process == [get_proc_address |-> GetProcAddressAddr]

\* a `?` left the builder: the boxes built so far are already dropped in h
BuildFailed(h, help, status) == [heap |-> h, stub |-> None, status |-> status, help |-> help]

\* RemoteProcedureStub { code, parameter, result }
RemoteProcedureStub(code, parameter, result) ==
    [code |-> code, parameter |-> parameter, result |-> result]

\* a builder that stores the stub without flushing its code
FlushSkipped(h, b) == h

\* function_stub.memory().flush_instruction_cache(): FlushInstructionCache over
\* the range of the box
flush_instruction_cache(h, b) ==
    [h EXCEPT !.dirty = @ \ Range(h.boxes[b].base, h.boxes[b].len)]

\* an unwinding that forgets the cell instead of dropping it
CellForgotten(h, b) == h

\* a `?` or a panic leaves the builder: a cell allocated so far goes out of scope
DropCell(h, b) == Drop(h, b)

\* the assembled code is copied into the target and its cache lines are flushed;
\* unwinding drops code, result and parameter
CopyAndFlush(h, code, parameter, result, help, fail_alloc, fail_write, fail_flush, fail) ==
    Let(alloc_and_copy(h, code, OsOk(fail, fail_alloc), OsOk(fail, fail_write)),
        LAMBDA c :
          IF c.box = 0
          THEN BuildFailed(DropCell(DropCell(c.heap, result), parameter), help, "Err")
          ELSE IF ~OsOk(fail, fail_flush)
          THEN BuildFailed(DropCell(DropCell(DropCell(c.heap, c.box), result), parameter), help, "Err")
          ELSE [heap |-> flush_instruction_cache(c.heap, c.box),
                stub |-> Some(RemoteProcedureStub(c.box, parameter, result)),
                status |-> "Ok", help |-> help])

\* a result address taken one byte into the result cell
ReturnBufferPastStart(h, result) == PtrAdd(h.boxes[result].base, 1)

\* result.as_raw_ptr().cast(): the address the emitter bakes into the code
result_as_raw_ptr(h, result) == h.boxes[result].base

\* a cell that forgets its value: the initialiser runs at every use
IsInitialisedNever(cell) == FALSE

\* OnceCell::get_or_try_init: the initialiser runs only while the cell is empty
IsInitialised(cell) == cell # None

\* Syringe::build_get_proc_address_stub: the heap, the stub cell and the help
\* data cell afterwards
build_get_proc_address_stub(h, help, cell, fail) ==
    IF IsInitialised(cell) THEN [heap |-> h, stub |-> cell, status |-> "Ok", help |-> help]
    ELSE IF help = None /\ ~OsOk(fail, 1) THEN BuildFailed(h, help, "Err")
    ELSE
    Let(IF help = None THEN Some(load_inject_help_data_for_process) ELSE help,
        LAMBDA inject_data :
    Let(alloc_raw(h, SizeOfParams, OsOk(fail, 2)),
        LAMBDA parameter :
          IF parameter.box = 0 THEN BuildFailed(h, inject_data, "Err")
          ELSE
    Let(alloc_raw(parameter.heap, HostPtrSize, OsOk(fail, 3)),
        LAMBDA result :
          IF result.box = 0
          THEN BuildFailed(DropCell(parameter.heap, parameter.box), inject_data, "Err")
          ELSE IF fail = 4
          THEN BuildFailed(DropCell(DropCell(result.heap, result.box), parameter.box),
                           inject_data, "Err")
          ELSE
    Let(Unwrap(inject_data).get_proc_address,
        LAMBDA remote_get_proc_address :
    Let(result_as_raw_ptr(result.heap, result.box),
        LAMBDA rb :
          IF AssertsFail(remote_get_proc_address, rb)
          THEN BuildFailed(DropCell(DropCell(result.heap, result.box), parameter.box),
                           inject_data, "Panic")
          ELSE CopyAndFlush(result.heap,
                            IF ~cfg.target64
                            THEN build_get_proc_address_x86(remote_get_proc_address, rb)
                            ELSE build_get_proc_address_x64(remote_get_proc_address, rb),
                            parameter.box, result.box, inject_data, 5, 6, 7, fail))))))

\* RemoteProcedure::build_stub for T = R = u32
build_stub(h, procedure, fail) ==
    Let(alloc_raw(h, SizeOfU32, OsOk(fail, 1)),
        LAMBDA parameter :
          IF parameter.box = 0 THEN BuildFailed(h, None, "Err")
          ELSE
    Let(alloc_raw(parameter.heap, SizeOfU32, OsOk(fail, 2)),
        LAMBDA result :
          IF result.box = 0
          THEN BuildFailed(DropCell(parameter.heap, parameter.box), None, "Err")
          ELSE IF fail = 3
          THEN BuildFailed(DropCell(DropCell(result.heap, result.box), parameter.box), None, "Err")
          ELSE
    Let(result_as_raw_ptr(result.heap, result.box),
        LAMBDA rb :
          IF AssertsFail(procedure, rb)
          THEN BuildFailed(DropCell(DropCell(result.heap, result.box), parameter.box), None, "Panic")
          ELSE CopyAndFlush(result.heap,
                            IF ~cfg.target64
                            THEN build_call_procedure_x86(procedure, rb)
                            ELSE build_call_procedure_x64(procedure, rb),
                            parameter.box, result.box, None, 4, 5, 6, fail))))

\* as_raw_ptr of a box
as_raw_ptr(h, b) == h.boxes[b].base

\* a remote thread right after CreateRemoteThread
Started(entry, param) ==
    [state |-> "running", entry |-> entry, param |-> param,
     crashed |-> FALSE, returned |-> <<>>, stored |-> <<>>]

\* Syringe::remote_exit_code_to_exception: the thread died of an exception
remote_exit_code_to_exception(t) == t.crashed

\* ------------------------------------------------------------------------
\* get_procedure / get_procedure_address
\* ------------------------------------------------------------------------

\* the modules a caller can name
Modules == {PayloadBase}

\* get_procedure_address without the pre-clear of the result cell
ClearResultSkipped(h, stub) == h

\* stub.result.write(&ptr::null_mut())
ClearResult(h, stub) == write(h, stub.result, HostPtrBytes(NullPtr))

\* a return that forgets the box of the name instead of dropping it
NameForgotten(h, name) == h

\* get_procedure_address returns, by `?` or at its end: the local `name` goes
\* out of scope
DropName(h, name) == Drop(h, name)

\* get_procedure_address from the allocation of the name up to the start of the
\* remote thread: the heap afterwards, the box of the name (already dropped when
\* a `?` returned) and whether the thread was started
StartLookup(h, stub, module, name, fail) ==
    Let(alloc_and_copy(h, as_bytes_with_nul(name), OsOk(fail, 8), OsOk(fail, 9)),
        LAMBDA nm :
          IF nm.box = 0 THEN [heap |-> nm.heap, name |-> 0, started |-> FALSE]
          ELSE IF ~OsOk(fail, 10)
          THEN [heap |-> DropName(nm.heap, nm.box), name |-> 0, started |-> FALSE]
          ELSE
    Let(write(nm.heap, stub.parameter,
              GetProcAddressParams(module, as_raw_ptr(nm.heap, nm.box))),
        LAMBDA h1 :
          IF ~OsOk(fail, 11)
          THEN [heap |-> DropName(h1, nm.box), name |-> 0, started |-> FALSE]
          ELSE IF ~OsOk(fail, 12)
          THEN [heap |-> DropName(ClearResult(h1, stub), nm.box), name |-> 0, started |-> FALSE]
          ELSE [heap |-> ClearResult(h1, stub), name |-> nm.box, started |-> TRUE]))

\* RemoteProcedurePtr::new: NonNull::new of the pointer read from the result cell
RemoteProcedurePtr_new(p) == IF p = NullPtr THEN None ELSE Some(p)

\* RemoteProcedure::new
RemoteProcedure_new(ptr) == [ptr |-> ptr, stub |-> None, live |-> TRUE, args |-> <<>>]

\* the kind of a failed OS call against the target
ProcErrorKind == ErrorKind(TargetCallFailure)

ProcReturn(op, status, kind, value, proc, arg) ==
    [op |-> op, status |-> status, kind |-> kind, value |-> value, proc |-> proc,
     arg |-> arg, returned |-> rthread.returned, stored |-> rthread.stored]

\* get_procedure_address up to the point where it blocks on the thread: the
\* stub is built on first use, then the lookup is started
BeginLookup(h, help, cell, module, name, fail) ==
    Let(build_get_proc_address_stub(h, help, cell, fail),
        LAMBDA b :
          IF b.status # "Ok"
          THEN [heap |-> b.heap, help |-> b.help, stub |-> b.stub, status |-> b.status,
                name |-> 0, started |-> FALSE]
          ELSE Let(StartLookup(b.heap, Unwrap(b.stub), module, name, fail),
                   LAMBDA l : [heap |-> l.heap, help |-> b.help, stub |-> b.stub,
                               status |-> IF l.started THEN "Ok" ELSE "Err",
                               name |-> l.name, started |-> l.started]))

\* the host after the steps r of get_procedure
GetProcedureBegun(r, name) ==
    /\ heap' = r.heap
    /\ inject_help_data' = r.help
    /\ get_proc_address_stub' = r.stub
    /\ IF r.started
       THEN /\ rthread' = Started(as_raw_ptr(r.heap, Unwrap(r.stub).code),
                                  as_raw_ptr(r.heap, Unwrap(r.stub).parameter))
            /\ frame' = [Idle EXCEPT !.op = "get_procedure", !.name = r.name,
                                     !.export = name]
            /\ UNCHANGED procOutcome
       ELSE /\ procOutcome' = ProcReturn("get_procedure", r.status, ProcErrorKind, <<>>, 0, 0)
            /\ UNCHANGED <<rthread, frame>>

\* the fallible steps of get_procedure_address: 1..7 build the stub
LookupFailPoints == IF get_proc_address_stub = None THEN 0..12 ELSE {0} \cup (8..12)

\* get_procedure(module, name) up to the point where it blocks on the thread
GetProcedureBegin(module, name) ==
    /\ frame.op = "idle"
    /\ nProcOps < MaxProcOps
    /\ nProcOps' = nProcOps + 1
    /\ \E fail \in LookupFailPoints :
         GetProcedureBegun(BeginLookup(heap, inject_help_data, get_proc_address_stub,
                                       module, name, fail), name)
    /\ UNCHANGED <<cfg, alive, injOnly, asmVars, onceVars, callSteps, boxOutcome, procedures>>

\* get_procedure after the thread has ended: the exit code, the result cell,
\* the drop of the name and the new RemoteProcedure
GetProcedureFinish ==
    /\ frame.op = "get_procedure"
    /\ rthread.state = "exited"
    /\ \E fail \in 0..2 :
         LET stub == Unwrap(get_proc_address_stub)
             address == RemoteProcedurePtr_new(PtrFromBytes(read(heap, stub.result)))
         IN  IF ~OsOk(fail, 1)
             THEN /\ procOutcome' = ProcReturn("get_procedure", "Err", ProcErrorKind,
                                                <<>>, 0, 0)
                  /\ UNCHANGED procedures
             ELSE IF remote_exit_code_to_exception(rthread)
             THEN /\ procOutcome' = ProcReturn("get_procedure", "Err", "RemoteException",
                                                <<>>, 0, 0)
                  /\ UNCHANGED procedures
             ELSE IF ~OsOk(fail, 2)
             THEN /\ procOutcome' = ProcReturn("get_procedure", "Err", ProcErrorKind,
                                                <<>>, 0, 0)
                  /\ UNCHANGED procedures
             ELSE /\ procedures' = IF address = None THEN procedures
                                   ELSE Append(procedures, RemoteProcedure_new(Unwrap(address)))
                  /\ procOutcome' = ProcReturn("get_procedure", "Ok", "none", address,
                                                IF address = None THEN 0
                                                ELSE Len(procedures) + 1, 0)
    /\ heap' = DropName(heap, frame.name)
    /\ rthread' = NoRemoteThread
    /\ frame' = Idle
    /\ UNCHANGED <<cfg, alive, injOnly, asmVars, onceVars, callSteps, boxOutcome, inject_help_data,
                   get_proc_address_stub, nProcOps>>

\* ------------------------------------------------------------------------
\* RemoteProcedure::call
\* ------------------------------------------------------------------------

\* arguments passed to the payload's procedures
ArgValues == {48879, 305419896}

\* the bytes of a u32 and the u32 of four bytes
U32Bytes(v) == LE(v, SizeOfU32)
U32Of(bytes) == FromLE(bytes)

\* a stub call that leaves the parameter cell as it was
WriteArgSkipped(h, stub, arg) == h

\* RemoteProcedureStub::call: self.parameter.write(arg)
WriteArg(h, stub, arg) == write(h, stub.parameter, U32Bytes(arg))

\* one step of RemoteProcedureStub::call; `failed`: the step returned Err
StubStep(step, failed) == [step |-> step, failed |-> failed]

\* the `?` of the write left out
WriteArgFailedIgnored(ok) == FALSE

\* self.parameter.write(arg)?: the early return on Err
WriteArgFailed(ok) == ~ok

\* RemoteProcedureStub::call up to the start of the remote thread
StartCall(h, stub, arg, fail) ==
    IF WriteArgFailed(OsOk(fail, 7))
    THEN [heap |-> h, stub |-> Some(stub), status |-> "Err",
          steps |-> <<StubStep("write", TRUE)>>]
    ELSE IF ~OsOk(fail, 8)
    THEN [heap |-> IF OsOk(fail, 7) THEN WriteArg(h, stub, arg) ELSE h,
          stub |-> Some(stub), status |-> "Err",
          steps |-> <<StubStep("write", ~OsOk(fail, 7)), StubStep("thread", TRUE)>>]
    ELSE [heap |-> IF OsOk(fail, 7) THEN WriteArg(h, stub, arg) ELSE h,
          stub |-> Some(stub), status |-> "Started",
          steps |-> <<StubStep("write", ~OsOk(fail, 7))>>]

\* a call that builds a stub whether or not it has one
NeedsStubAlways(procedure, arg) == TRUE

\* `if let Some(stub) = self.stub.get_mut() { stub } else { build }`: the
\* compiled call takes a sized T, whose size is the parameter cell's, and does
\* not look at arg
NeedsStub(procedure, arg) == procedure.stub = None

\* RemoteProcedure::call up to the point where it blocks on the thread: the stub
\* is built on first use, then the call is started
BeginCall(h, procedure, arg, fail) ==
    IF ~NeedsStub(procedure, arg)
    THEN StartCall(h, Unwrap(procedure.stub), arg, fail)
    ELSE Let(build_stub(h, procedure.ptr, fail),
             LAMBDA b :
               IF b.status # "Ok"
               THEN [heap |-> b.heap, stub |-> None, status |-> b.status, steps |-> <<>>]
               ELSE StartCall(b.heap, Unwrap(b.stub), arg, fail))

\* the host after the steps r of call
CallBegun(r, i, arg) ==
    /\ heap' = r.heap
    /\ callSteps' = r.steps
    /\ procedures' = [procedures EXCEPT ![i].stub = r.stub]
    /\ IF r.status = "Started"
       THEN /\ rthread' = Started(as_raw_ptr(r.heap, Unwrap(r.stub).code),
                                  as_raw_ptr(r.heap, Unwrap(r.stub).parameter))
            /\ frame' = [Idle EXCEPT !.op = "call", !.proc = i, !.arg = arg]
            /\ UNCHANGED procOutcome
       ELSE /\ procOutcome' = ProcReturn("call", r.status, ProcErrorKind, <<>>, i, arg)
            /\ UNCHANGED <<rthread, frame>>

\* the fallible steps of call: 1..6 build the stub
CallFailPoints(i) == IF procedures[i].stub = None THEN 0..8 ELSE {0, 7, 8}

\* RemoteProcedure::call(arg) up to the point where it blocks on the thread
CallBegin(i, arg) ==
    /\ frame.op = "idle"
    /\ nProcOps < MaxProcOps
    /\ procedures[i].live
    /\ nProcOps' = nProcOps + 1
    /\ \E fail \in CallFailPoints(i) : CallBegun(BeginCall(heap, procedures[i], arg, fail), i, arg)
    /\ UNCHANGED <<cfg, alive, injOnly, asmVars, onceVars, boxOutcome, inject_help_data, get_proc_address_stub>>

\* RemoteProcedure::call after the thread has ended: the exit code and the
\* read of the result cell
CallFinish ==
    /\ frame.op = "call"
    /\ rthread.state = "exited"
    /\ \E fail \in 0..2 :
         LET stub == Unwrap(procedures[frame.proc].stub)
         IN  IF ~OsOk(fail, 1)
             THEN /\ procOutcome' = ProcReturn("call", "Err", ProcErrorKind, <<>>,
                                                frame.proc, frame.arg)
                  /\ UNCHANGED procedures
                  /\ callSteps' = callSteps \o <<StubStep("thread", TRUE)>>
             ELSE IF remote_exit_code_to_exception(rthread)
             THEN /\ procOutcome' = ProcReturn("call", "Err", "RemoteException", <<>>,
                                                frame.proc, frame.arg)
                  /\ UNCHANGED procedures
                  /\ callSteps' = callSteps \o <<StubStep("thread", FALSE),
                                                  StubStep("exit_code", TRUE)>>
             ELSE IF ~OsOk(fail, 2)
             THEN /\ procOutcome' = ProcReturn("call", "Err", ProcErrorKind, <<>>,
                                                frame.proc, frame.arg)
                  /\ UNCHANGED procedures
                  /\ callSteps' = callSteps \o <<StubStep("thread", FALSE),
                                                  StubStep("exit_code", FALSE),
                                                  StubStep("read", TRUE)>>
             ELSE /\ procOutcome' = ProcReturn("call", "Ok", "none",
                                                <<U32Of(read(heap, stub.result))>>,
                                                frame.proc, frame.arg)
                  /\ procedures' = [procedures EXCEPT ![frame.proc].args = Append(@, frame.arg)]
                  /\ callSteps' = callSteps \o <<StubStep("thread", FALSE),
                                                  StubStep("exit_code", FALSE),
                                                  StubStep("read", FALSE)>>
    /\ rthread' = NoRemoteThread
    /\ frame' = Idle
    /\ UNCHANGED <<cfg, alive, injOnly, asmVars, onceVars, boxVars, inject_help_data,
                   get_proc_address_stub, nProcOps>>

\* the RemoteProcedure goes out of scope: its stub's boxes are dropped
ProcedureDrop(i) ==
    /\ frame.op = "idle"
    /\ procedures[i].live
    /\ procedures' = [procedures EXCEPT ![i].live = FALSE]
    /\ heap' = IF procedures[i].stub = None THEN heap
               ELSE LET stub == Unwrap(procedures[i].stub)
                    IN  Drop(Drop(Drop(heap, stub.code), stub.parameter), stub.result)
    /\ UNCHANGED <<cfg, alive, injOnly, asmVars, onceVars, callSteps, boxOutcome, inject_help_data,
                   get_proc_address_stub, rthread, frame, procOutcome, nProcOps>>

\* ------------------------------------------------------------------------
\* SpecProc: the remote-procedure layer around its environment
\* ------------------------------------------------------------------------

\* L"C:\p\pay.dll" with its terminating NUL, as UTF-16LE bytes
PayloadPathWide ==
    <<67, 0, 58, 0, 92, 0, 112, 0, 92, 0, 112, 0, 97, 0, 121, 0, 46, 0,
      100, 0, 108, 0, 108, 0, 0, 0>>

\* what inject does to the shared allocator: the copy of the payload path lives
\* in a box for the duration of the call
InjectPathCopy ==
    /\ frame.op = "idle"
    /\ nProcOps < MaxProcOps
    /\ nProcOps' = nProcOps + 1
    /\ \E fail \in 0..2 :
         LET r == alloc_and_copy(heap, PayloadPathWide, OsOk(fail, 1), OsOk(fail, 2))
         IN  heap' = IF r.box = 0 THEN r.heap ELSE Drop(r.heap, r.box)
    /\ UNCHANGED <<cfg, alive, injOnly, asmVars, onceVars, callSteps, boxOutcome, inject_help_data,
                   get_proc_address_stub, procedures, rthread, frame, procOutcome>>

\* the scheduler of the target runs the remote thread to its end
RemoteThreadRun ==
    /\ alive
    /\ rthread.state = "running"
    /\ LET r == RunStub(heap.mem, rthread.entry, rthread.param)
       IN  /\ heap' = [heap EXCEPT !.mem = r.mem]
           /\ rthread' = [rthread EXCEPT !.state = "exited", !.crashed = r.crashed,
                                         !.returned = r.returned, !.stored = r.stored]
    /\ UNCHANGED <<cfg, alive, injOnly, asmVars, onceVars, callSteps, boxOutcome, inject_help_data,
                   get_proc_address_stub, procedures, frame, procOutcome, nProcOps>>

\* the target is terminated from outside while the host waits for a remote
\* thread; the thread ends with it
ProcKill ==
    /\ alive
    /\ rthread.state = "running"
    /\ alive' = FALSE
    /\ rthread' = [rthread EXCEPT !.state = "exited"]
    /\ UNCHANGED <<cfg, injOnly, asmVars, onceVars, callSteps, boxVars, inject_help_data, get_proc_address_stub,
                   procedures, frame, procOutcome, nProcOps>>

\* the builds on which get_procedure is available for the target
ProcConfigs == {c \in Configs : c.os64 /\ c.feat /\ (c.host64 \/ ~c.target64)}

InitProc ==
    /\ InitInject
    /\ cfg \in ProcConfigs

NextProc ==
    \/ \E module \in Modules, name \in Names : GetProcedureBegin(module, name)
    \/ GetProcedureFinish
    \/ \E i \in 1..Len(procedures), arg \in ArgValues : CallBegin(i, arg)
    \/ CallFinish
    \/ \E i \in 1..Len(procedures) : ProcedureDrop(i)
    \/ InjectPathCopy
    \/ RemoteThreadRun
    \/ ProcKill

SpecProc == InitProc /\ [][NextProc]_vars

\* ------------------------------------------------------------------------
\* Properties of the remote procedures (checked under SpecProc)
\* ------------------------------------------------------------------------

\* get_procedure returned Ok / call returned Ok
LookupReturnedOk == procOutcome.op = "get_procedure" /\ procOutcome.status = "Ok"
CallReturnedOk == procOutcome.op = "call" /\ procOutcome.status = "Ok"

C7_CallReturnsStoredValue ==
    CallReturnedOk =>
        /\ procOutcome.stored # <<>>
        /\ procOutcome.value = <<U32Of(procOutcome.stored[1])>>
        /\ procOutcome.value = <<procOutcome.arg>>

\* a second call through the same stub returned its own argument, which differs
\* from the argument of the first call
C7_Witness ==
    /\ CallReturnedOk
    /\ Len(procedures[procOutcome.proc].args) >= 2
    /\ procedures[procOutcome.proc].args[1] # procedures[procOutcome.proc].args[2]
    /\ procOutcome.arg = procedures[procOutcome.proc].args[2]
    /\ procOutcome.value = <<procOutcome.arg>>

\* ------------------------------------------------------------------------
\* Conservation of the raw allocators (checked under SpecBox)
\* ------------------------------------------------------------------------

\* sum of the lengths of the extents of a free list
RECURSIVE FreeBytes(_)
FreeBytes(free) ==
    IF free = <<>> THEN 0 ELSE Head(free).len + FreeBytes(Tail(free))

\* sum of the lengths of the first n boxes that are live and lie in ra
RECURSIVE LiveBytes(_, _, _)
LiveBytes(h, ra, n) ==
    IF n = 0 THEN 0
    ELSE LiveBytes(h, ra, n - 1)
           + (IF h.boxes[n].live /\ RawContains(ra, h.boxes[n].base)
              THEN h.boxes[n].len ELSE 0)

\* C11: for every raw allocator, the lengths of its free extents and the
\* lengths of the live allocations inside its region add up to the region size.
C11_FreePlusLiveIsRegion ==
    \A k \in 1..Len(heap.ralloc) :
        FreeBytes(heap.ralloc[k].free) + LiveBytes(heap, heap.ralloc[k], Len(heap.boxes))
            = heap.ralloc[k].size

\* a raw allocator whose free list is fragmented around a live allocation after
\* an alloc and a free
C11_Witness ==
    \E k \in 1..Len(heap.ralloc) :
        /\ Len(heap.ralloc[k].free) >= 2
        /\ \E i \in LiveBoxes(heap) : RawContains(heap.ralloc[k], heap.boxes[i].base)
        /\ \E i \in 1..Len(heap.boxes) :
               /\ heap.boxes[i].frees = 1
               /\ RawContains(heap.ralloc[k], heap.boxes[i].base)

\* ------------------------------------------------------------------------
\* Round trip of a remote box (checked under SpecBox)
\* ------------------------------------------------------------------------

\* the live boxes the host has written a value into
WrittenBoxes(h) == {i \in LiveBoxes(h) : h.boxes[i].last # None}

\* C12: reading a live box returns the value of the last write to that box,
\* whatever has been written to other boxes since.
C12_WriteReadRoundTrip ==
    \A b \in WrittenBoxes(heap) : read(heap, b) = Unwrap(heap.boxes[b].last)

\* a read returned the value written to its box while another live box holds a
\* different value written by the host
C12_Witness ==
    /\ boxOutcome.op = "read"
    /\ boxOutcome.box \in WrittenBoxes(heap)
    /\ boxOutcome.value = Unwrap(heap.boxes[boxOutcome.box].last)
    /\ \E c \in WrittenBoxes(heap) :
           /\ c # boxOutcome.box
           /\ heap.boxes[c].last # heap.boxes[boxOutcome.box].last

\* ------------------------------------------------------------------------
\* Instruction cache (checked under SpecProc)
\* ------------------------------------------------------------------------

\* the stubs the host has stored: the get_proc_address stub and the stub of
\* every RemoteProcedure that is still in scope
StoredStubs ==
    (IF get_proc_address_stub = None THEN {} ELSE {Unwrap(get_proc_address_stub)})
    \cup {Unwrap(procedures[i].stub) :
            i \in {j \in 1..Len(procedures) : procedures[j].live /\ procedures[j].stub # None}}

\* the code range of the box has been written and flushed since its last write
CodeFlushed(h, b) ==
    /\ Range(h.boxes[b].base, h.boxes[b].len) \subseteq DOMAIN h.mem
    /\ Range(h.boxes[b].base, h.boxes[b].len) \cap h.dirty = {}

\* C13: the code of every stored stub has been flushed from the instruction
\* cache after its last write, and a remote thread only ever exists at the code
\* address of a stored stub, so no thread executes code written and not flushed.
C13_CodeFlushedBeforeExecution ==
    /\ \A stub \in StoredStubs : CodeFlushed(heap, stub.code)
    /\ rthread.state # "none" =>
         \E stub \in StoredStubs : as_raw_ptr(heap, stub.code) = rthread.entry

\* a remote thread runs the get_proc_address stub while the thread of a call
\* stub has run before: both code ranges are written and flushed
C13_Witness ==
    /\ rthread.state = "running"
    /\ get_proc_address_stub # None
    /\ as_raw_ptr(heap, Unwrap(get_proc_address_stub).code) = rthread.entry
    /\ \E i \in 1..Len(procedures) : procedures[i].args # <<>>
    /\ \A stub \in StoredStubs : CodeFlushed(heap, stub.code)

\* ------------------------------------------------------------------------
\* SpecAsm: the emitters applied to arbitrary addresses
\* ------------------------------------------------------------------------

\* the two trampoline families
Families == {"call_procedure", "get_proc_address"}

\* addresses handed to the emitters: null, addresses below 4 GiB, and, where
\* the host's usize has 64 bits, an address above
EmitterAddresses ==
    {NullPtr, Ptr(0, RegionStride), Ptr(0, AssembleBase + 16)}
    \cup (IF cfg.host64 THEN {Ptr(1, RegionStride)} ELSE {})

\* base addresses a program is assembled at
AssemblyBases == {0, DefaultPage, ReassembleBase, AssembleBase}

\* the instructions the emitter of the family assembles for the target's bitness
ProgramOf(family, procedure, return_buffer) ==
    IF family = "call_procedure"
    THEN IF ~cfg.target64 THEN call_procedure_x86(procedure, return_buffer)
         ELSE call_procedure_x64(procedure, return_buffer)
    ELSE IF ~cfg.target64 THEN get_proc_address_x86(procedure, return_buffer)
         ELSE get_proc_address_x64(procedure, return_buffer)

\* what the emitter of the family returns for the target's bitness
BuildOf(family, procedure, return_buffer) ==
    IF family = "call_procedure"
    THEN IF ~cfg.target64 THEN build_call_procedure_x86(procedure, return_buffer)
         ELSE build_call_procedure_x64(procedure, return_buffer)
    ELSE IF ~cfg.target64 THEN build_get_proc_address_x86(procedure, return_buffer)
         ELSE build_get_proc_address_x64(procedure, return_buffer)

\* a caller picks a family, the two captured addresses and two base addresses
AsmInput ==
    /\ asm.status # "input"
    /\ \E family \in Families, procedure \in EmitterAddresses,
          return_buffer \in EmitterAddresses, baseA \in AssemblyBases,
          baseB \in AssemblyBases :
         asm' = [NoAsm EXCEPT !.status = "input", !.family = family,
                              !.procedure = procedure, !.return_buffer = return_buffer,
                              !.baseA = baseA, !.baseB = baseB]
    /\ UNCHANGED <<injVars, boxVars, procVars, onceVars>>

\* the emitter runs: its assertions, then the assembly (recorded at the
\* emitter's own base and at the two bases picked)
AsmEmit ==
    /\ asm.status = "input"
    /\ asm' = IF AssertsFail(asm.procedure, asm.return_buffer)
              THEN [asm EXCEPT !.status = "Panic"]
              ELSE [asm EXCEPT
                      !.status = "Ok",
                      !.code = BuildOf(asm.family, asm.procedure, asm.return_buffer),
                      !.codeA = assemble(ProgramOf(asm.family, asm.procedure,
                                                   asm.return_buffer), asm.baseA),
                      !.codeB = assemble(ProgramOf(asm.family, asm.procedure,
                                                   asm.return_buffer), asm.baseB)]
    /\ UNCHANGED <<injVars, boxVars, procVars, onceVars>>

InitAsm ==
    /\ InitInject
    /\ cfg \in ProcConfigs

NextAsm ==
    \/ AsmInput
    \/ AsmEmit

SpecAsm == InitAsm /\ [][NextAsm]_vars

\* C14: whatever the family, the bitness and the captured addresses, the bytes
\* an emitter produces are the same at any two base addresses of assembly, and
\* they are the bytes the emitter returns.
C14_PositionIndependent ==
    asm.status = "Ok" => (asm.codeA = asm.codeB /\ asm.code = asm.codeA)

\* a stub assembled at two different bases, with captured addresses on either
\* side of both bases
C14_Witness ==
    /\ asm.status = "Ok"
    /\ asm.baseA # asm.baseB
    /\ asm.procedure # asm.return_buffer
    /\ asm.codeA = asm.codeB
    /\ Len(asm.code) > 0

\* ------------------------------------------------------------------------
\* Bitness support (checked under SpecInject)
\* ------------------------------------------------------------------------

\* the combinations the documentation of inject rules out: an x86 host with an
\* x64 target, and an x64 host with an x86 target without into_x86_from_x64
UnsupportedCombination ==
    \/ ~cfg.host64 /\ cfg.target64
    \/ cfg.host64 /\ ~cfg.target64 /\ ~cfg.feat

\* C15: against a live target, inject and eject end with UnsupportedTarget in
\* the two unsupported host/target combinations, having cached no inject-help
\* data and created no remote thread; in every other combination they never
\* end with UnsupportedTarget.
C15_UnsupportedExactlyOnMismatch ==
    ((Ended("inject") \/ Ended("eject")) /\ ~deadAtCall)
        => /\ UnsupportedCombination
                => /\ pc = "idle"
                   /\ outcome.status = "Err"
                   /\ outcome.err = "UnsupportedTarget"
                   /\ x86_data = None
                   /\ x64_data = None
                   /\ ~created
           /\ ~UnsupportedCombination => outcome.err # "UnsupportedTarget"

\* ------------------------------------------------------------------------
\* The remote-thread sequence (checked under SpecInject)
\* ------------------------------------------------------------------------

\* the order of the sequence
ThreadSequence == <<"create", "wait", "query", "interpret", "modules">>

\* what the operation has performed is a prefix of the sequence, in order
StepsInOrder ==
    /\ Len(steps) <= Len(ThreadSequence)
    /\ \A i \in 1..Len(steps) : steps[i].step = ThreadSequence[i]

\* the i-th step performed is one of create, wait, query and its OS call failed
ThreadStepFailed(i) ==
    /\ steps[i].step \in {"create", "wait", "query"}
    /\ steps[i].failed

\* C16 as stated: the steps are performed in the order create, wait, query,
\* interpret; a null thread handle, a failed wait or a failed query is the last
\* step the operation performs, and the operation returns Err(RemoteIo).
C16_FailedStepEndsWithRemoteIo ==
    /\ StepsInOrder
    /\ \A i \in 1..Len(steps) :
         ThreadStepFailed(i)
            => /\ i = Len(steps)
               /\ pc = "idle"
               /\ outcome.status = "Err"
               /\ outcome.err = "RemoteIo"

\* C16 amended: as above, but the error is the conversion of the OS's last
\* error: RemoteIo, or, when thread creation was refused because the target
\* has terminated, ProcessInaccessible.
C16_FailedStepEndsOperation ==
    /\ StepsInOrder
    /\ \A i \in 1..Len(steps) :
         ThreadStepFailed(i)
            => /\ i = Len(steps)
               /\ pc = "idle"
               /\ outcome.status = "Err"
               /\ \/ outcome.err = "RemoteIo"
                  \/ /\ outcome.err = "ProcessInaccessible"
                     /\ steps[i].step = "create"
                     /\ ~alive

\* an eject whose wait failed after its thread was created: nothing was
\* queried or interpreted
C16_Witness ==
    /\ Returned("eject")
    /\ Len(steps) = 2
    /\ steps[2] = [step |-> "wait", failed |-> TRUE]
    /\ exit_code = None
    /\ outcome.err = "RemoteIo"

\* C17: once the exit code has been queried, an exit code equal to
\* STILL_ACTIVE makes the operation panic on its assertion; such an exit code
\* is never interpreted.
C17_StillActiveNeverInterpreted ==
    exit_code = Some(STILL_ACTIVE)
        => /\ pc = "panicked"
           /\ \A i \in 1..Len(steps) : steps[i].step # "interpret"

\* C18: eject returns RemoteOperationFailed exactly when the FreeLibrary
\* thread's exit code was queried as 0, and then without having queried the
\* target's module list.
C18_EjectFailsExactlyOnZero ==
    Ended("eject")
        => /\ (pc = "idle" /\ outcome.err = "RemoteOperationFailed") <=> exit_code = Some(0)
           /\ exit_code = Some(0) => \A i \in 1..Len(steps) : steps[i].step # "modules"

\* an eject whose FreeLibrary returned FALSE
C18_Witness ==
    /\ Returned("eject")
    /\ exit_code = Some(0)
    /\ outcome.err = "RemoteOperationFailed"
    /\ steps[Len(steps)].step = "interpret"

\* ------------------------------------------------------------------------
\* The cached get_proc_address stub (checked under SpecProc)
\* ------------------------------------------------------------------------

\* the three cells of a stub
CellsOf(stub) == {stub.code, stub.parameter, stub.result}

\* C19: once the get_proc_address stub is cached, every step leaves it cached
\* as it is: the same code, parameter and result cells, live at the same
\* addresses, and the same code bytes (no second build, no second write of
\* the code).
C19_StubBuiltOnce ==
    [][get_proc_address_stub # None
         => /\ get_proc_address_stub' = get_proc_address_stub
            /\ \A b \in CellsOf(Unwrap(get_proc_address_stub)) :
                 /\ heap'.boxes[b].live
                 /\ as_raw_ptr(heap', b) = as_raw_ptr(heap, b)
                 /\ heap'.boxes[b].len = heap.boxes[b].len
            /\ read(heap', Unwrap(get_proc_address_stub).code)
                 = read(heap, Unwrap(get_proc_address_stub).code)]_vars

\* a second get_procedure_address has returned a procedure through the stub
\* the first one built
C19_Witness ==
    /\ get_proc_address_stub # None
    /\ Len(procedures) >= 2
    /\ procOutcome.op = "get_procedure"
    /\ procOutcome.status = "Ok"

\* ------------------------------------------------------------------------
\* The stub of a RemoteProcedure (checked under SpecProc)
\* ------------------------------------------------------------------------

\* mem::size_of_val(arg)
SizeOfVal(arg) == Len(U32Bytes(arg))

\* stub.parameter.memory().len()
ParameterLen(h, stub) == h.boxes[Unwrap(stub).parameter].len

\* the bytes of the parameter cell of a stub
ParameterRange(h, stub) ==
    Range(as_raw_ptr(h, Unwrap(stub).parameter), ParameterLen(h, stub))

\* the existing stub's parameter cell is smaller than the serialised arg
CellTooSmall(h, stub, arg) == stub # None /\ ParameterLen(h, stub) < SizeOfVal(arg)

\* this step is call(arg) of procedure i up to its blocking on the thread or
\* its early return (the first conjunct follows from CallBegin: it is the
\* cheap part, tested first)
CallStep(i, arg) ==
    /\ IF frame'.op = "call"
       THEN frame'.proc = i /\ frame'.arg = arg
       ELSE procOutcome'.op = "call" /\ procOutcome'.proc = i /\ procOutcome'.arg = arg
    /\ CallBegin(i, arg)

\* C20: a call replaces the procedure's stub exactly when there was none or
\* its parameter cell was smaller than the argument, and keeps it otherwise;
\* the parameter cell of the stub a call runs is live and at least as large as
\* the argument, and a call that reuses its stub changes no byte of the target
\* outside that cell.
C20_StubBuiltWhenNeededAndArgFits ==
    [][\A i \in 1..Len(procedures), arg \in ArgValues :
         CallStep(i, arg) =>
           /\ procedures'[i].stub # procedures[i].stub
                => \/ procedures[i].stub = None
                   \/ CellTooSmall(heap, procedures[i].stub, arg)
           /\ (/\ frame'.op = "call"
               /\ \/ procedures[i].stub = None
                  \/ CellTooSmall(heap, procedures[i].stub, arg))
                => procedures'[i].stub # procedures[i].stub
           /\ frame'.op = "call"
                => /\ heap'.boxes[Unwrap(procedures'[i].stub).parameter].live
                   /\ SizeOfVal(arg) <= ParameterLen(heap', procedures'[i].stub)
           /\ procedures[i].stub # None
                => \A a \in DOMAIN heap'.mem :
                     a \notin ParameterRange(heap, procedures[i].stub)
                       => a \in DOMAIN heap.mem /\ heap'.mem[a] = heap.mem[a]]_vars

\* a procedure that has already returned from a call is called again with
\* another argument: its stub is reused and holds the new argument
C20_Witness ==
    /\ frame.op = "call"
    /\ Len(procedures[frame.proc].args) >= 1
    /\ procedures[frame.proc].args[1] # frame.arg
    /\ procedures[frame.proc].stub # None
    /\ read(heap, Unwrap(procedures[frame.proc].stub).parameter) = U32Bytes(frame.arg)

\* ------------------------------------------------------------------------
\* The steps of a stub call (checked under SpecProc)
\* ------------------------------------------------------------------------

\* the order of RemoteProcedureStub::call
StubSequence == <<"write", "thread", "exit_code", "read">>

\* C21: a stub call performs its steps in the order write, remote thread,
\* read; a step that fails is the last one performed and the call returns Err
\* without a value (after a failed write no thread is started, after a failed
\* thread step the result cell is not read); the thread a call waits for runs
\* the stub's code with the parameter cell's address, and that cell holds arg;
\* a call returns Ok only after all the steps.
C21_StubCallStepsInOrder ==
    /\ Len(callSteps) <= Len(StubSequence)
    /\ \A k \in 1..Len(callSteps) :
         /\ callSteps[k].step = StubSequence[k]
         /\ callSteps[k].failed
              => /\ k = Len(callSteps)
                 /\ frame.op # "call"
                 /\ frame.op = "idle" => rthread = NoRemoteThread
                 /\ procOutcome.op = "call" => /\ procOutcome.status = "Err"
                                               /\ procOutcome.value = <<>>
    /\ frame.op = "call"
         => /\ callSteps = <<StubStep("write", FALSE)>>
            /\ rthread.entry = as_raw_ptr(heap, Unwrap(procedures[frame.proc].stub).code)
            /\ rthread.param = as_raw_ptr(heap, Unwrap(procedures[frame.proc].stub).parameter)
            /\ read(heap, Unwrap(procedures[frame.proc].stub).parameter) = U32Bytes(frame.arg)
    /\ (frame.op # "call" /\ procOutcome.op = "call" /\ procOutcome.status = "Ok")
         => /\ Len(callSteps) = Len(StubSequence)
            /\ ~callSteps[Len(callSteps)].failed
            /\ procOutcome.value # <<>>

\* a call whose remote thread step failed: it returned Err and read nothing
C21_Witness ==
    /\ frame.op = "idle"
    /\ procOutcome.op = "call"
    /\ procOutcome.status = "Err"
    /\ callSteps = <<StubStep("write", FALSE), StubStep("thread", TRUE)>>
    /\ procOutcome.value = <<>>

\* ------------------------------------------------------------------------
\* SpecOnce: host threads sharing one Syringe
\* ------------------------------------------------------------------------

\* get_or_try_init of a cell without a lock: every caller that finds the cell
\* empty runs the initialiser
CanRunLoaderUnlocked(c) == TRUE

\* SyncOnceCell::get_or_try_init on an empty cell: the initialiser runs in one
\* thread at a time, the other callers block until it is over (OnceCell, the
\* cell of the default build, is not Sync: its callers never overlap)
CanRunLoader(c) ==
    \A u \in Threads : ~(once.pc[u] = "loading" /\ once.cell[u] = c)

\* thread t calls inject or eject: get_inject_help_data_for_process selects
\* the cell, or returns UnsupportedTarget
OnceCall(t) ==
    /\ once.pc[t] = "idle"
    /\ once.calls < MaxHostCalls
    /\ once.sync \/ \A u \in Threads : once.pc[u] = "idle"
    /\ IsTargetX64 # None
    /\ LET c == HelpDataCell(Unwrap(IsTargetX64))
       IN  once' = IF c = "unsupported"
                   THEN [once EXCEPT !.calls = @ + 1, !.used[t] = None]
                   ELSE [once EXCEPT !.calls = @ + 1, !.used[t] = None,
                                     !.pc[t] = "get", !.cell[t] = c]
    /\ UNCHANGED <<injVars, boxVars, procVars, asmVars>>

\* get_or_try_init: a full cell is returned as it is; on an empty one the
\* caller enters the initialiser
OnceGet(t) ==
    /\ once.pc[t] = "get"
    /\ IF CellValue(once.cell[t]) # None
       THEN once' = [once EXCEPT !.pc[t] = "idle", !.used[t] = CellValue(once.cell[t])]
       ELSE /\ CanRunLoader(once.cell[t])
            /\ once' = [once EXCEPT !.pc[t] = "loading"]
    /\ UNCHANGED <<injVars, boxVars, procVars, asmVars>>

\* the loader returns: Ok(data) fills the cell and the caller goes on with the
\* cell's value; Err leaves the cell empty for the next caller
OnceLoad(t) ==
    /\ once.pc[t] = "loading"
    /\ \/ /\ LoaderReadsTarget(once.cell[t]) => alive
          /\ SetCell(once.cell[t], InjectHelpData(cfg.target64))
          /\ once' = [once EXCEPT !.pc[t] = "idle",
                                  !.used[t] = Some(InjectHelpData(cfg.target64)),
                                  !.loads[once.cell[t]] = @ + 1]
       \/ /\ once' = [once EXCEPT !.pc[t] = "idle"]
          /\ UNCHANGED <<x86_data, x64_data>>
    /\ UNCHANGED <<injNoCells, boxVars, procVars, asmVars>>

\* both builds: the default one and the one with sync_send_syringe
InitOnce ==
    /\ InitSyringe
    /\ once \in {[NoHosts EXCEPT !.sync = b] : b \in BOOLEAN}

NextOnce ==
    \/ \E t \in Threads : OnceCall(t)
    \/ \E t \in Threads : OnceGet(t)
    \/ \E t \in Threads : OnceLoad(t)

SpecOnce == InitOnce /\ [][NextOnce]_vars

\* C22: for each bitness the loader completes successfully at most once,
\* whatever the interleaving of the host threads; a cell once filled keeps its
\* value, and every call that got inject-help data got the cell's value.
C22_HelpDataLoadedOnce ==
    /\ \A c \in {"x86", "x64"} :
         /\ once.loads[c] <= 1
         /\ once.loads[c] = 1 => CellValue(c) # None
    /\ \A t \in Threads :
         (once.pc[t] = "idle" /\ once.used[t] # None)
            => once.used[t] = CellValue(once.cell[t])

\* two host threads were inside get_or_try_init of the same empty cell at the
\* same time; one loaded, the other got the cached value
C22_Witness ==
    /\ once.sync
    /\ \E t, u \in Threads :
         /\ t # u
         /\ once.cell[t] = once.cell[u]
         /\ once.pc[t] = "idle" /\ once.used[t] # None
         /\ once.pc[u] = "get"
         /\ once.loads[once.cell[t]] = 1
         /\ once.calls = 2

\* ------------------------------------------------------------------------
\* Growth of the multi-buffer allocator (checked under SpecBox)
\* ------------------------------------------------------------------------

\* the raw allocators of st that hold `size` bytes
Fitting(st, size) == {i \in 1..Len(st) : RawFits(st[i], size)}

\* where the first fitting extent of raw allocator ra starts
FirstFitAddress(ra, size) == PtrAdd(ra.base, ra.free[FirstFit(ra.free, size)].off)

\* an alloc_raw(size) step, told from the others by what it returns
AllocStep(size) ==
    /\ boxOutcome'.op = "alloc_raw"
    /\ BoxAllocRaw(size)

\* what alloc(size) did to the raw allocators st, leaving the new box nb
AllocatedFrom(st, st2, nb, size) ==
    IF Fitting(st, size) # {}
    THEN /\ Len(st2) = Len(st)
         /\ \A i \in 1..Len(st) : i # Min(Fitting(st, size)) => st2[i] = st[i]
         /\ nb.base = FirstFitAddress(st[Min(Fitting(st, size))], size)
    ELSE /\ Len(st2) = Len(st) + 1
         /\ SubSeq(st2, 1, Len(st)) = st
         /\ st2[Len(st2)].size = Max2(DefaultPage, RoundUpPage(size))
         /\ RawContains(st2[Len(st2)], nb.base)
         /\ RawContains(st2[Len(st2)], PtrAdd(nb.base, size - 1))

\* C23: alloc(size) is served by the first raw allocator, in order, that fits;
\* when none fits a fresh raw allocator of max(default_page,
\* round_up_page(size)) bytes is appended and serves it, so alloc never fails
\* with out-of-capacity, and the raw allocators and boxes there were before
\* the growth are unchanged.
C23_AllocFirstFitOrGrow ==
    [][\A size \in Sizes :
         AllocStep(size) =>
           /\ boxOutcome'.error # "OutOfCapacity"
           /\ heap'.mem = heap.mem
           /\ boxOutcome'.status = "Err" =>
                /\ Fitting(heap.ralloc, size) = {}
                /\ heap' = heap
           /\ boxOutcome'.status = "Ok" =>
                /\ Len(heap'.boxes) = Len(heap.boxes) + 1
                /\ SubSeq(heap'.boxes, 1, Len(heap.boxes)) = heap.boxes
                /\ heap'.boxes[Len(heap'.boxes)].len = size
                /\ heap'.boxes[Len(heap'.boxes)].live
                /\ AllocatedFrom(heap.ralloc, heap'.ralloc,
                                 heap'.boxes[Len(heap'.boxes)], size)]_vars

\* the allocator grew by a region of more than one page for the last box
\* while a box of the first raw allocator was live
C23_Witness ==
    /\ boxOutcome.op = "alloc_raw" /\ boxOutcome.status = "Ok"
    /\ Len(heap.ralloc) >= 2
    /\ heap.ralloc[Len(heap.ralloc)].size = 2 * DefaultPage
    /\ boxOutcome.box = Len(heap.boxes)
    /\ RawContains(heap.ralloc[Len(heap.ralloc)], heap.boxes[boxOutcome.box].base)
    /\ \E b \in LiveBoxes(heap) : RawContains(heap.ralloc[1], heap.boxes[b].base)

\* ------------------------------------------------------------------------
\* Stubs and the cells they own (checked under SpecProc)
\* ------------------------------------------------------------------------

\* the result address found in the code of the stub
BakedResult(h, stub) == Decode(h.mem, h.boxes[stub.code].base).rb

\* the stub's three cells are live, never freed, and its code stores the
\* result at the start of its result cell
StubIntact(h, stub) ==
    /\ \A b \in CellsOf(stub) : h.boxes[b].live /\ h.boxes[b].frees = 0
    /\ BakedResult(h, stub) = h.boxes[stub.result].base

\* no box is at another address or of another length after the step
BoxesStay ==
    \A b \in 1..Len(heap.boxes) :
        /\ heap'.boxes[b].base = heap.boxes[b].base
        /\ heap'.boxes[b].len = heap.boxes[b].len

\* C24: allocations never move, and while a stub is stored in its cache (the
\* Syringe's cell or a RemoteProcedure in scope) its code, parameter and
\* result boxes are live and the result address baked into its code is the
\* address of its result box.
C24_StubCellsStayPut ==
    /\ [](\A stub \in StoredStubs : StubIntact(heap, stub))
    /\ [][BoxesStay]_vars

\* both caches hold a stub, a call through the procedure's stub has returned,
\* and a box allocated in between has been freed again
C24_Witness ==
    /\ get_proc_address_stub # None
    /\ \E i \in 1..Len(procedures) :
         /\ procedures[i].live /\ procedures[i].stub # None
         /\ procedures[i].args # <<>>
    /\ \E b \in 1..Len(heap.boxes) : ~heap.boxes[b].live
    /\ frame.op = "idle"

\* ------------------------------------------------------------------------
\* Target memory held by get_procedure_address (checked under SpecProc)
\* ------------------------------------------------------------------------

\* the cells of all stored stubs
StubCells == UNION {CellsOf(stub) : stub \in StoredStubs}

\* no RemoteProcedure in scope has built its stub
OnlyLookups == \A i \in 1..Len(procedures) : procedures[i].live => procedures[i].stub = None

\* C25: the copy of the export name is live only while get_procedure_address
\* waits for its thread; once the call has returned, with Ok or any error, the
\* live boxes are exactly the cells of the stored stubs and every other box
\* has been freed once - after get_procedure_address calls alone, the three
\* cells of the cached get_proc_address stub (none if it was never built).
C25_LookupFreesName ==
    /\ frame.op = "get_procedure" =>
         /\ frame.name \in LiveBoxes(heap) \ StubCells
         /\ LiveBoxes(heap) = StubCells \cup {frame.name}
    /\ frame.op # "get_procedure" => LiveBoxes(heap) = StubCells
    /\ \A b \in 1..Len(heap.boxes) : ~heap.boxes[b].live => heap.boxes[b].frees = 1
    /\ (frame.op = "idle" /\ OnlyLookups) =>
         /\ get_proc_address_stub = None => LiveBoxes(heap) = {}
         /\ get_proc_address_stub # None =>
              /\ LiveBoxes(heap) = CellsOf(Unwrap(get_proc_address_stub))
              /\ Cardinality(LiveBoxes(heap)) = 3

\* after a lookup that succeeded, a later one has failed once its name was
\* copied: both names are freed, the three cells of the stub are live
C25_Witness ==
    /\ frame.op = "idle"
    /\ procOutcome.op = "get_procedure" /\ procOutcome.status = "Err"
    /\ Len(procedures) >= 1
    /\ OnlyLookups
    /\ get_proc_address_stub # None
    /\ Len(heap.boxes) >= 5
    /\ LiveBoxes(heap) = CellsOf(Unwrap(get_proc_address_stub))

\* ------------------------------------------------------------------------
\* A build of a call stub that fails (checked under SpecProc)
\* ------------------------------------------------------------------------

\* a call of procedure i that finds no stub
BuildingCall(i, arg) ==
    /\ procedures[i].stub = None
    /\ CallStep(i, arg)

\* the boxes the step allocated
NewBoxes == (Len(heap.boxes) + 1)..Len(heap'.boxes)

\* C26: when building the call stub fails part-way, every cell allocated for
\* it is freed again (the boxes live afterwards are those live before), the
\* RemoteProcedure's stub stays unset, call returns the error without a remote
\* thread being started, and a later call on the procedure builds again: a call
\* that finds no stub either fails in the build or stores a stub of three
\* freshly allocated live cells.
C26_FailedBuildFreesCells ==
    [][\A i \in 1..Len(procedures), arg \in ArgValues :
         BuildingCall(i, arg) =>
           IF procedures'[i].stub = None
           THEN
              /\ LiveBoxes(heap') = LiveBoxes(heap)
              /\ \A b \in NewBoxes : ~heap'.boxes[b].live /\ heap'.boxes[b].frees = 1
              /\ SubSeq(heap'.boxes, 1, Len(heap.boxes)) = heap.boxes
              /\ procOutcome'.op = "call" /\ procOutcome'.status # "Ok"
              /\ procOutcome'.value = <<>>
              /\ rthread' = NoRemoteThread /\ rthread = NoRemoteThread
              /\ frame'.op = "idle"
              /\ callSteps' = <<>>
           ELSE
              /\ CellsOf(Unwrap(procedures'[i].stub)) \subseteq NewBoxes
              /\ Cardinality(CellsOf(Unwrap(procedures'[i].stub))) = 3
              /\ \A b \in CellsOf(Unwrap(procedures'[i].stub)) : heap'.boxes[b].live]_vars

\* a call built its stub and returned Ok on a procedure whose earlier call had
\* failed in the build after allocating a cell
C26_Witness ==
    /\ Len(procedures) = 1
    /\ procedures[1].live /\ procedures[1].stub # None
    /\ procOutcome.op = "call" /\ procOutcome.status = "Ok"
    /\ \E b \in 1..Len(heap.boxes) :
         /\ ~heap.boxes[b].live
         /\ heap.boxes[b].len = SizeOfU32
         /\ b < Unwrap(procedures[1].stub).parameter

\* ------------------------------------------------------------------------
\* Borrows of the shared allocator (checked under SpecBox)
\* ------------------------------------------------------------------------

\* C27: no operation on the allocator or on a box asks for a borrow of the
\* shared allocator that conflicts with one outstanding - no borrow_mut while
\* anything is borrowed, no borrow while mutably borrowed - and every
\* operation returns with nothing borrowed, so none panics on a borrow
\* conflict.
C27_NoBorrowConflict ==
    /\ ~heap.conflict
    /\ heap.flag = 0

\* alloc_and_copy has failed in its write and dropped the box it had
\* allocated, with other boxes live, written and dropped around it
C27_Witness ==
    /\ boxOutcome.op = "alloc_and_copy" /\ boxOutcome.status = "Err"
    /\ Len(heap.boxes) = MaxAllocs
    /\ ~heap.boxes[Len(heap.boxes)].live
    /\ heap.boxes[Len(heap.boxes)].frees = 1
    /\ \E b \in LiveBoxes(heap) : heap.boxes[b].last # None
    /\ \E b \in 1..Len(heap.boxes) - 1 : ~heap.boxes[b].live

====
